---- MODULE Spec2Model ----
(***************************************************************************)
(* State-machine model of the modihost contract (src/src/modihost.cpp,     *)
(* src/include/modihost.hpp): the pool registry, the holder registry, the  *)
(* collateral stakes, the allocation engine (reqservice / updhldrtkns),    *)
(* the time locks (unlkpooltkns) and the escrow settlement legs.           *)
(*                                                                         *)
(* Conventions.                                                            *)
(*  - An asset is its int64 amount (4 decimals: 10000 units = 1 token).    *)
(*  - A percentage held in a double (pool.reward, modihostFees) is held    *)
(*    in hundredths of a percent (0.2 % = 20), the shares in whole         *)
(*    percent.  For the rates and shares used here (0.5, 0.2, 0.1 %;       *)
(*    0, 50, 100 %) and up to 59 whole tokens the IEEE double products of  *)
(*    the source, truncated to uint64, equal the exact integer values.     *)
(*  - A table is a function from primary key to row.                       *)
(*  - Every action is one transaction: the handler is a function from the  *)
(*    tables to the tables plus the first failed check (err); a failed     *)
(*    transaction leaves every table as it was (the host's atomicity).     *)
(*  - The createdDate columns and pool.lockTime are written and never      *)
(*    read; they are left out.                                             *)
(***************************************************************************)
EXTENDS Integers, Sequences, FiniteSets, TLC

VARIABLES
    now,        \* eosio::current_time_point().sec_since_epoch()
    bal,        \* accounts table: account -> balance (no entry: no balance row)
    pools,      \* poolstable
    holders,    \* poolholders
    stakes,     \* stakes: collateral account -> staked amount
    feeReqs,    \* hotelFeeReqs: TID -> row
    poolReqs,   \* poolTokenReqs
    hldrReqs,   \* holderTknReqs
    poolLocks,  \* pooltknlocks
    hldrLocks,  \* hldrtknlocks
    deferred,   \* deferred transactions in flight: [id, at]
    cast,       \* which accounts take part in the run (fixed from the start)
    sqrootCall, \* a call of sqroot in progress: its locals and where it stands
    doubles,    \* what the double-precision computations of fees, rewards and shares
                \* give, by rate, share and amount (fixed from the start)
    last        \* the last transaction tried: action, arguments, first failed check

tables == <<bal, pools, holders, stakes, feeReqs, poolReqs, hldrReqs,
            poolLocks, hldrLocks, deferred>>
vars == <<now, bal, pools, holders, stakes, feeReqs, poolReqs, hldrReqs,
          poolLocks, hldrLocks, deferred, cast, sqrootCall, doubles, last>>

----------------------------------------------------------------------------
(* Program constants *)

m_modihost == "aim"
m_escrow == "escrow.aim"
m_mainpool == "mainpool.aim"
m_mainpoolrwd == "mainpool.aim"
modihostFees == 50
m_mainpoolrew == 10
colateralAmount == 1000000000
coeficient == 57000
Unit == 10000

(* Bounds of the model *)

MaxTID == 2
MaxTime == 1802
TickSecs == 1802
MaxNumber == 120     \* the largest amount, in token units, sqroot is called with

(* The cast: accounts that exist on the chain *)

PoolAccts == {"p1", "p2"}
Holders == {"h1", "h2"}
Hotels == {"r1", "r2"}
Accounts == {m_modihost, m_escrow, m_mainpool, "o1", "c1", "c2", "rw1", "rw2"}
                \cup PoolAccts \cup Holders \cup Hotels

\* what each holder lends in one deposit
DepositOf == [h \in Holders |-> IF h = "h1" THEN 10000 ELSE 15000]

TIDs == 1..MaxTID

\* the amounts of the worked example, in units of 0.0001 token: the main pool's seed,
\* the holder's deposit, the requested amount and the requester's balance
ExampleSeed == 10000000
ExampleDeposit == 5000000
ExampleRequest == 3000000
ExampleBalance == 30000

DepositIn(c) == IF c = "ex" THEN [h \in Holders |-> ExampleDeposit] ELSE DepositOf

\* the reward rates a pool owner may set, in hundredths of a percent
Rates == {10, 30}

Profile1 ==
    [poolName |-> "p1", ownerAcnt |-> "o1", colaterlAcnt |-> "c1",
     rewardAcnt |-> "rw1", reward |-> 20, isPrivate |-> FALSE,
     ownerShare |-> 50, holderShare |-> 50,
     pCollateral |-> colateralAmount, arRestriction |-> {}]

Profile2 ==
    [poolName |-> "p2", ownerAcnt |-> "o1", colaterlAcnt |-> "c2",
     rewardAcnt |-> "rw2", reward |-> 10, isPrivate |-> FALSE,
     ownerShare |-> 50, holderShare |-> 50,
     pCollateral |-> colateralAmount, arRestriction |-> {"r2"}]

\* The casts.  "one": one pool with two holders, and the main pool may be
\* terminated.  "two": two pools of different rates with one holder each, the
\* dearer one created under either id, and a requester the cheaper pool restricts.
\* "err" and "legs": one pool with one holder; in "legs" a holder may fund escrow.
\* "adm": the two pools, and the first pool's collateral account may be emptied.
\* "live": one pool with two holders.
\* "cls": one pool with one holder; the pool account may move its tokens away and
\* close its balance row.
\* registrations that repeat a pool name or a collateral account, or declare a
\* collateral below the minimum or above the collateral account's balance
ProfileSameName == [Profile1 EXCEPT !.colaterlAcnt = "c2"]

ProfileSameColl == [Profile2 EXCEPT !.colaterlAcnt = "c1"]

ProfileLow == [Profile2 EXCEPT !.pCollateral = colateralAmount - 1]

ProfileOver == [Profile2 EXCEPT !.pCollateral = colateralAmount + 1]

\* the collaterals declared in the cast that compares lock durations, from the
\* minimum up, in units of 0.0001 token
Collaterals == {colateralAmount, colateralAmount + 1, colateralAmount + 100000000,
                colateralAmount + 500000000, 2 * colateralAmount}

\* a registration under the main pool's name
ProfileMain == [Profile2 EXCEPT !.poolName = m_mainpool]

\* a registration with a reward rate of 0.35 % that the owner and the holders share
\* 20 to 80
ProfileOdd == [Profile1 EXCEPT !.reward = 35, !.ownerShare = 20, !.holderShare = 80]

\* a registration with a reward rate of 0, open to every requester
ProfileFree == [Profile2 EXCEPT !.reward = 0, !.arRestriction = {}]

PoolProfiles(c) ==
    CASE c \in {"two", "adm", "rwd"} -> {Profile1, Profile2}
      [] c = "zero" -> {Profile1, ProfileFree}
      [] c = "odd" -> {ProfileOdd}
      [] c = "init" -> {Profile1, ProfileMain}
      [] c = "lock" -> {[pr EXCEPT !.pCollateral = a] :
                            pr \in {Profile1, Profile2}, a \in Collaterals}
      [] c = "dup" -> {Profile1, Profile2, ProfileSameName, ProfileSameColl,
                       ProfileLow, ProfileOver}
      [] OTHER -> {Profile1}

\* who lends to which pool
Lenders(c) ==
    CASE c \in {"one", "live"} -> {<<"h1", "p1">>, <<"h2", "p1">>}
      [] c \in {"two", "adm", "lock", "zero"} -> {<<"h1", "p1">>, <<"h2", "p2">>}
      [] c = "rwd" -> {<<"h1", "p1">>, <<"h2", "p1">>, <<"h2", "p2">>}
      [] OTHER     -> {<<"h1", "p1">>}

\* who requests how much: a whole number of tokens, or two and a half; in "zero"
\* also nothing, half a token and one and a half
Requests(c) ==
    CASE c = "two"  -> {<<"r1", 10000>>, <<"r1", 25000>>, <<"r2", 10000>>}
      [] c = "zero" -> {<<"r1", 0>>, <<"r1", 5000>>, <<"r1", 10000>>, <<"r1", 15000>>,
                        <<"r1", 20000>>}
      [] c = "ex"   -> {<<"r1", ExampleRequest>>}
      [] c = "rwd"  -> {<<"r1", 10000>>, <<"r2", 10000>>, <<"r1", 30000>>}
      [] c = "adm"  -> {<<"r1", 10000>>, <<"r2", 10000>>}
      [] c = "legs" -> {<<"r1", 10000>>}
      [] OTHER      -> {<<"r1", 10000>>, <<"r1", 25000>>}

\* the pools whose owner may terminate them
Terminable(c) ==
    CASE c \in {"one", "init"} -> {"p1", m_mainpool}
      [] c = "two" -> {"p1", "p2"}
      [] c = "adm" -> {"p2"}
      [] OTHER     -> {"p1"}

\* plain transfers between accounts: from, to, quantity
Transfers(c) ==
    CASE c = "legs" -> {<<"h2", m_escrow, 10000>>}
      [] c = "adm"  -> {<<"c1", "o1", colateralAmount>>}
      [] c = "cls"  -> {<<"p1", "o1", 10000>>}
      [] OTHER      -> {}

\* the accounts that may close their balance row
Closers(c) == IF c = "cls" THEN {"p1"} ELSE {}

\* the balances the accounts start with
InitBal(c) ==
    [a \in {m_modihost, m_escrow, m_mainpool, "c1", "c2", "h1", "h2", "r1", "r2"} |->
        CASE a = m_modihost -> 100000
          [] a = m_escrow   -> 0
          [] a = m_mainpool -> IF c = "ex" THEN ExampleSeed ELSE 50000
          [] a \in {"c1", "c2"} -> IF c = "lock" THEN 2 * colateralAmount
                                    ELSE colateralAmount
          [] a = "h1" -> IF c = "ex" THEN ExampleDeposit ELSE 20000
          [] a = "h2" -> 15000
          [] a = "r1" -> IF c = "ex" THEN ExampleBalance ELSE 200
          [] OTHER    -> 100]

----------------------------------------------------------------------------
(* Generic helpers *)

Max(S) == CHOOSE x \in S : \A y \in S : y <= x

\* multi_index::available_primary_key
available_primary_key(tbl) == IF DOMAIN tbl = {} THEN 0 ELSE Max(DOMAIN tbl) + 1

emplace(tbl, row) == (row.ID :> row) @@ tbl

erase(tbl, id) == [k \in DOMAIN tbl \ {id} |-> tbl[k]]

\* the keys of a table in the order of a secondary index: by key, then by primary key
RECURSIVE OrderBy(_, _)
OrderBy(ids, key) ==
    IF ids = {} THEN <<>>
    ELSE LET m == CHOOSE i \in ids :
                     \A j \in ids : key[i] < key[j] \/ (key[i] = key[j] /\ i <= j)
         IN  <<m>> \o OrderBy(ids \ {m}, key)

RECURSIVE SumOver(_, _)
SumOver(ids, f) ==
    IF ids = {} THEN 0
    ELSE LET i == CHOOSE j \in ids : TRUE IN f[i] + SumOver(ids \ {i}, f)

\* the tables as one value, with the first failed check
Cur == [bal |-> bal, pools |-> pools, holders |-> holders, stakes |-> stakes,
        feeReqs |-> feeReqs, poolReqs |-> poolReqs, hldrReqs |-> hldrReqs,
        poolLocks |-> poolLocks, hldrLocks |-> hldrLocks, deferred |-> deferred,
        err |-> ""]

\* eosio::check
check(s, cond, msg) == IF s.err = "" /\ ~cond THEN [s EXCEPT !.err = msg] ELSE s

\* require_auth: auth is the set of accounts that signed the transaction
require_auth(s, auth, a) == check(s, a \in auth, "missing authority")

is_account(a) == a \in Accounts

----------------------------------------------------------------------------
(* The ledger *)

HasRow(s, a) == a \in DOMAIN s.bal

\* token::get_balance; the row must exist
get_balance(s, a) == s.bal[a]

sub_balance(s, owner, value) ==
    IF s.err # "" THEN s
    ELSE IF ~HasRow(s, owner) THEN check(s, FALSE, "no balance object found")
    ELSE IF s.bal[owner] < value THEN check(s, FALSE, "overdrawn balance")
    ELSE IF owner \in DOMAIN s.stakes /\ s.bal[owner] < s.stakes[owner] + value
         THEN check(s, FALSE, "overdrawn balance, locked in pool collateral")
    ELSE [s EXCEPT !.bal[owner] = @ - value]

sub_balance2(s, owner, value) ==
    IF s.err # "" THEN s
    ELSE IF ~HasRow(s, owner) THEN check(s, FALSE, "no balance object found")
    ELSE IF s.bal[owner] < value THEN check(s, FALSE, "overdrawn balance")
    ELSE [s EXCEPT !.bal[owner] = @ - value]

add_balance(s, owner, value) ==
    IF s.err # "" THEN s
    ELSE IF HasRow(s, owner) THEN [s EXCEPT !.bal[owner] = @ + value]
    ELSE [s EXCEPT !.bal = (owner :> value) @@ @]

close(s, auth, owner) ==
    LET s1 == require_auth(s, auth, owner)
        s2 == check(s1, HasRow(s, owner),
                    "Balance row already deleted or never existed. Action won't have any effect.")
        s3 == check(s2, s.bal[owner] = 0, "Cannot close because the balance is not zero.")
    IN  IF s3.err # "" THEN s3
        ELSE [s3 EXCEPT !.bal = [a \in DOMAIN @ \ {owner} |-> @[a]]]

transfer(s, auth, from, to, quantity) ==
    LET s1 == check(s, from # to, "cannot transfer to self")
        s2 == require_auth(s1, auth, from)
        s3 == check(s2, is_account(to), "to account does not exist")
        s4 == check(s3, quantity > 0, "must transfer positive quantity")
    IN  add_balance(sub_balance(s4, from, quantity), to, quantity)

\* a move that credits the receiver and debits nobody
transfer2Esc_Mint(s, from, to, quantity) == add_balance(s, to, quantity)

\* a move that accepts a quantity of zero
transfer2Esc_AnyQuantity(s, from, to, quantity) ==
    LET s1 == check(s, from # to, "cannot transfer to self")
        s2 == check(s1, is_account(to), "to account does not exist")
    IN  add_balance(sub_balance2(s2, from, quantity), to, quantity)

transfer2Esc(s, from, to, quantity) ==
    LET s1 == check(s, from # to, "cannot transfer to self")
        s2 == check(s1, is_account(to), "to account does not exist")
        s3 == check(s2, quantity > 0, "must transfer positive quantity")
    IN  add_balance(sub_balance2(s3, from, quantity), to, quantity)

----------------------------------------------------------------------------
(* Lookups *)

\* pools.get_index<"poolname">().find
PoolByName(s, poolName) == {i \in DOMAIN s.pools : s.pools[i].poolName = poolName}

PoolId(s, poolName) == CHOOSE i \in PoolByName(s, poolName) : TRUE

\* a lookup that finds only the holder's active positions
HolderRows_ActiveOnly(s, poolName, holder) ==
    {i \in DOMAIN s.holders :
        /\ s.holders[i].poolName = poolName /\ s.holders[i].holder = holder
        /\ s.holders[i].isActive}

\* the rows of (poolName, holder) in the holder index
HolderRows(s, poolName, holder) ==
    {i \in DOMAIN s.holders :
        s.holders[i].poolName = poolName /\ s.holders[i].holder = holder}

----------------------------------------------------------------------------
(* Fixed-point square root and the lock duration *)

\* the loop body's new estimate: ( number.amount/temp.amount + temp.amount) / 2
sqrootNext(number, temp) == (number \div temp + temp) \div 2

RECURSIVE sqrootLoop(_, _, _)
sqrootLoop(number, sqrt, temp) ==
    IF sqrt = temp THEN sqrt
    ELSE sqrootLoop(number, sqrootNext(number, sqrt), sqrt)

sqroot(number) == sqrootLoop(number, number \div 2, 0) * 100

\* a lock duration that grows with the root of the collateral
lockInSecsOf_Rising(pCollateral) == (sqroot(pCollateral) \div 100) \div 10

\* (coeficient.amount * 100000) / caRoot.amount; caRoot is a multiple of 100, so
\* the quotient equals (coeficient * 1000) / (caRoot / 100), which stays in range
lockInSecsOf(pCollateral) == (coeficient * 1000) \div (sqroot(pCollateral) \div 100)

----------------------------------------------------------------------------
(* Pool lifecycle *)

\* an initialize that writes the main pool's row whether or not it is there
initialize_Again(s, auth) ==
    LET s1 == require_auth(s, auth, m_modihost)
        s2 == check(s1, HasRow(s1, m_mainpool), "Tokens not found.")
    IN  IF s2.err # "" THEN s2
        ELSE LET mainPoolBlnc == get_balance(s2, m_mainpool) IN
             [s2 EXCEPT !.pools = (0 :>
                 [ID |-> 0,
                  poolName |-> m_mainpool, ownerAcnt |-> m_mainpool,
                  colaterlAcnt |-> m_mainpool, rewardAcnt |-> m_mainpoolrwd,
                  reward |-> m_mainpoolrew, isPrivate |-> FALSE,
                  ownerShare |-> 100, holderShare |-> 0,
                  totalTokens |-> mainPoolBlnc, avlblTokens |-> mainPoolBlnc,
                  colaterlAmnt |-> mainPoolBlnc, ownerAvlblReward |-> 0,
                  lockInSecs |-> 0, isActive |-> TRUE,
                  arRestriction |-> {}]) @@ @]

initialize(s, auth) ==
    LET s1 == require_auth(s, auth, m_modihost) IN
    IF s1.err # "" THEN s1
    ELSE IF 0 \in DOMAIN s1.pools THEN s1
    ELSE LET s2 == check(s1, HasRow(s1, m_mainpool), "Tokens not found.") IN
         IF s2.err # "" THEN s2
         ELSE LET mainPoolBlnc == get_balance(s2, m_mainpool) IN
              [s2 EXCEPT !.pools = emplace(@,
                  [ID |-> available_primary_key(s2.pools),
                   poolName |-> m_mainpool, ownerAcnt |-> m_mainpool,
                   colaterlAcnt |-> m_mainpool, rewardAcnt |-> m_mainpoolrwd,
                   reward |-> m_mainpoolrew, isPrivate |-> FALSE,
                   ownerShare |-> 100, holderShare |-> 0,
                   totalTokens |-> mainPoolBlnc, avlblTokens |-> mainPoolBlnc,
                   colaterlAmnt |-> mainPoolBlnc, ownerAvlblReward |-> 0,
                   lockInSecs |-> 0, isActive |-> TRUE,
                   arRestriction |-> {}])]

\* a balance check that any declared collateral passes
collateralCovered_Always(s, colaterlAcnt, pCollateral) == TRUE

\* the collateral account holds the declared collateral
collateralCovered(s, colaterlAcnt, pCollateral) ==
    get_balance(s, colaterlAcnt) >= pCollateral

\* a scan that finds no pool with the collateral account
collateralInUse_Never(s, colaterlAcnt) == FALSE

\* some pool row, active or not, has the collateral account
collateralInUse(s, colaterlAcnt) ==
    \E i \in DOMAIN s.pools : s.pools[i].colaterlAcnt = colaterlAcnt

addpool(s, p) ==
    LET s1 == check(s, is_account(p.poolName), "pool account does not exist")
        s2 == check(s1, is_account(p.ownerAcnt), "owner account does not exist")
        s3 == check(s2, is_account(p.colaterlAcnt), "collateral account does not exist")
        s4 == check(s3, is_account(p.rewardAcnt), "reward account does not exist")
        s5 == check(s4, 0 \in DOMAIN s.pools, "Mainpool is not created in explorer yet.")
        s6 == check(s5, PoolByName(s, p.poolName) = {}, "Pool already exists.")
        s7 == check(s6, ~collateralInUse(s, p.colaterlAcnt),
                    "Collateral account already in use.")
        s8 == check(s7, p.pCollateral >= colateralAmount, "Invalid collateral amount.")
        s9 == check(s8, HasRow(s, p.colaterlAcnt), "Balance less than collateral amount.")
        s10 == check(s9, collateralCovered(s, p.colaterlAcnt, p.pCollateral),
                     "Balance less than collateral amount.")
    IN  IF s10.err # "" THEN s10
        ELSE LET s11 == [s10 EXCEPT !.pools = emplace(@,
                            [ID |-> available_primary_key(s10.pools),
                             poolName |-> p.poolName, ownerAcnt |-> p.ownerAcnt,
                             colaterlAcnt |-> p.colaterlAcnt, rewardAcnt |-> p.rewardAcnt,
                             reward |-> p.reward, isPrivate |-> p.isPrivate,
                             ownerShare |-> p.ownerShare, holderShare |-> p.holderShare,
                             totalTokens |-> 0, avlblTokens |-> 0,
                             colaterlAmnt |-> p.pCollateral, ownerAvlblReward |-> 0,
                             lockInSecs |-> lockInSecsOf(p.pCollateral),
                             isActive |-> TRUE, arRestriction |-> p.arRestriction])]
                 s12 == check(s11, p.colaterlAcnt \notin DOMAIN s11.stakes,
                              "Collateral already staked.")
             IN  IF s12.err # "" THEN s12
                 ELSE [s12 EXCEPT !.stakes = (p.colaterlAcnt :> p.pCollateral) @@ @]

----------------------------------------------------------------------------
(* Holder registry *)

\* a deposit that raises the pool's total and forgets its available
updpoltottkn_TotalOnly(s, poolID, tokens, increment) ==
    IF s.err # "" THEN s
    ELSE IF increment
         THEN [s EXCEPT !.pools[poolID].totalTokens = @ + tokens]
         ELSE [s EXCEPT !.pools[poolID].totalTokens = @ - tokens,
                        !.pools[poolID].avlblTokens = @ - tokens]

updpoltottkn(s, poolID, tokens, increment) ==
    IF s.err # "" THEN s
    ELSE IF increment
         THEN [s EXCEPT !.pools[poolID].totalTokens = @ + tokens,
                        !.pools[poolID].avlblTokens = @ + tokens]
         ELSE [s EXCEPT !.pools[poolID].totalTokens = @ - tokens,
                        !.pools[poolID].avlblTokens = @ - tokens]

addpoolholdr(s, auth, poolName, holder, tokens, t) ==
    LET s1 == check(s, is_account(poolName), "pool does not exist")
        s2 == check(s1, is_account(holder), "holder account does not exist")
        s3 == require_auth(s2, auth, holder)
        s4 == check(s3, PoolByName(s, poolName) # {}, "Pool not found.")
        s5 == check(s4, s.pools[PoolId(s, poolName)].isActive, "Pool is terminated.")
        s6 == check(s5, HasRow(s, holder), "Insufficient token balance.")
        s7 == check(s6, get_balance(s, holder) >= tokens, "Insufficient token balance.")
        s8 == transfer(s7, auth, holder, poolName, tokens)
    IN  IF s8.err # "" THEN s8
        ELSE LET rows == HolderRows(s, poolName, holder)
                 s9 == IF rows = {}
                       THEN [s8 EXCEPT !.holders = emplace(@,
                               [ID |-> available_primary_key(s8.holders),
                                poolName |-> poolName, holder |-> holder,
                                tokens |-> tokens, remainingTokens |-> tokens,
                                availableReward |-> 0, lastUsedAt |-> t,
                                isActive |-> TRUE])]
                       ELSE LET hID == Max(rows) IN
                            [s8 EXCEPT !.holders[hID].isActive = TRUE,
                                       !.holders[hID].tokens = @ + tokens,
                                       !.holders[hID].remainingTokens = @ + tokens]
             IN  updpoltottkn(s9, PoolId(s, poolName), tokens, TRUE)

lendmoretkns(s, auth, poolName, holder, tokens) ==
    LET s1 == require_auth(s, auth, holder)
        s2 == check(s1, PoolByName(s, poolName) # {}, "Pool not found.")
        s3 == check(s2, s.pools[PoolId(s, poolName)].isActive, "Pool is terminated.")
        rows == HolderRows(s, poolName, holder)
        s4 == check(s3, rows # {}, "Holder not registered in this pool.")
        s5 == check(s4, s.holders[Max(rows)].isActive, "Holder not registered in this pool.")
        s6 == check(s5, HasRow(s, holder), "Insufficient token balance.")
        s7 == check(s6, get_balance(s, holder) >= tokens, "Insufficient token balance.")
        s8 == transfer(s7, auth, holder, poolName, tokens)
    IN  IF s8.err # "" THEN s8
        ELSE updpoltottkn(
                [s8 EXCEPT !.holders[Max(rows)].tokens = @ + tokens,
                           !.holders[Max(rows)].remainingTokens = @ + tokens],
                PoolId(s, poolName), tokens, TRUE)

\* a leave that never finds tokens locked
tokensFree_Always(h) == TRUE

\* the position's tokens are free and not locked
tokensFree(h) == h.remainingTokens = h.tokens

leavepool(s, auth, poolName, holder) ==
    LET s1 == require_auth(s, auth, holder)
        s2 == check(s1, PoolByName(s, poolName) # {}, "Pool not found.")
        s3 == check(s2, s.pools[PoolId(s, poolName)].isActive, "Pool is terminated.")
        rows == HolderRows(s, poolName, holder)
    IN  IF s3.err # "" \/ rows = {} THEN s3
        ELSE LET hID == CHOOSE i \in rows : \A j \in rows : i <= j
                 h == s.holders[hID]
                 pl == s.pools[PoolId(s, poolName)]
                 s4 == check(s3, h.isActive, "Holder already terminated.")
                 s5 == check(s4, tokensFree(h), "Tokens currently locked or in use.")
                 s6 == IF h.tokens > 0
                       THEN transfer2Esc(
                              check(check(s5, HasRow(s, poolName), "unable to find key"),
                                    get_balance(s, poolName) >= h.tokens,
                                    "Insufficient pool balance."),
                              poolName, holder, h.tokens)
                       ELSE s5
                 s7 == IF h.availableReward > 0
                       THEN transfer2Esc(
                              check(check(s6, HasRow(s6, pl.rewardAcnt), "unable to find key"),
                                    get_balance(s6, pl.rewardAcnt) >= h.availableReward,
                                    "Insufficient reward account balance."),
                              pl.rewardAcnt, holder, h.availableReward)
                       ELSE s6
             IN  IF s7.err # "" THEN s7
                 ELSE updpoltottkn(
                        [s7 EXCEPT !.holders[hID].isActive = FALSE,
                                   !.holders[hID].availableReward = 0,
                                   !.holders[hID].tokens = 0,
                                   !.holders[hID].remainingTokens = 0],
                        pl.ID, h.tokens, FALSE)

----------------------------------------------------------------------------
(* Time locks *)

\* The uint64 value of an account name.  Only the deferred-transaction id uses it:
\* id = now + poolID + hotel.value + TID.  The values of two names that differ in
\* one of their first characters lie further apart than any now + poolID + TID of
\* the model, so the id is held as the pair <<hotel, now + poolID + TID>>.
sender_id(t, poolID, hotel, TID) == <<hotel, t + poolID + TID>>

\* a draw that schedules no sweep
calldeferred_None(s, delay, id, t) == s

\* transaction::send without replace_existing: an id already in flight fails
calldeferred(s, delay, id, t) ==
    LET s1 == check(s, \A d \in s.deferred : d.id # id,
                    "deferred transaction with the same sender_id already exists")
    IN  IF s1.err # "" THEN s1
        ELSE [s1 EXCEPT !.deferred = @ \cup {[id |-> id, at |-> t + delay]}]

\* a sweep that releases every pool-level lock, expired or not
RECURSIVE unlockPools_Early(_, _, _)
unlockPools_Early(s, ids, t) ==
    IF ids = {} THEN s
    ELSE LET i == CHOOSE j \in ids : \A k \in ids : j <= k
             lk == s.poolLocks[i]
         IN  unlockPools_Early([s EXCEPT !.pools[lk.poolID].avlblTokens = @ + lk.tokens,
                                         !.poolLocks = erase(@, i)],
                               ids \ {i}, t)

RECURSIVE unlockPools(_, _, _)
unlockPools(s, ids, t) ==
    IF ids = {} THEN s
    ELSE LET i == CHOOSE j \in ids : \A k \in ids : j <= k
             lk == s.poolLocks[i]
         IN  IF lk.lockedUntil <= t
             THEN unlockPools([s EXCEPT !.pools[lk.poolID].avlblTokens = @ + lk.tokens,
                                        !.poolLocks = erase(@, i)],
                              ids \ {i}, t)
             ELSE unlockPools(s, ids \ {i}, t)

\* a sweep of the holder locks that leaves a lock expiring this very second
RECURSIVE unlockHolders_Late(_, _, _)
unlockHolders_Late(s, ids, t) ==
    IF ids = {} THEN s
    ELSE LET i == CHOOSE j \in ids : \A k \in ids : j <= k
             lk == s.hldrLocks[i]
         IN  IF lk.lockedUntil < t
             THEN unlockHolders_Late(
                      [s EXCEPT !.holders[lk.holderID].remainingTokens = @ + lk.tokens,
                                !.hldrLocks = erase(@, i)],
                      ids \ {i}, t)
             ELSE unlockHolders_Late(s, ids \ {i}, t)

RECURSIVE unlockHolders(_, _, _)
unlockHolders(s, ids, t) ==
    IF ids = {} THEN s
    ELSE LET i == CHOOSE j \in ids : \A k \in ids : j <= k
             lk == s.hldrLocks[i]
         IN  IF lk.lockedUntil <= t
             THEN unlockHolders([s EXCEPT !.holders[lk.holderID].remainingTokens = @ + lk.tokens,
                                          !.hldrLocks = erase(@, i)],
                                ids \ {i}, t)
             ELSE unlockHolders(s, ids \ {i}, t)

unlkpooltkns(s, t) ==
    unlockHolders(unlockPools(s, DOMAIN s.poolLocks, t), DOMAIN s.hldrLocks, t)

----------------------------------------------------------------------------
(* Double-precision arithmetic: rates, shares and rewards are doubles in the source *)

RECURSIVE Pow2(_)
Pow2(k) == IF k = 0 THEN 1 ELSE 2 * Pow2(k - 1)

\* the 53 bits of a double's significand are held as a natural number: a sequence of
\* limbs of 12 bits, least significant first
LimbBits == 12

Limb == Pow2(LimbBits)

RECURSIVE bitsOf(_)
bitsOf(n) == IF n = 0 THEN 0 ELSE 1 + bitsOf(n \div 2)

RECURSIVE limbsOf(_)
limbsOf(n) == IF n = 0 THEN <<>> ELSE <<n % Limb>> \o limbsOf(n \div Limb)

RECURSIVE intOf(_)
intOf(a) == IF a = <<>> THEN 0 ELSE a[1] + Limb * intOf(Tail(a))

RECURSIVE trim(_)
trim(a) == IF a # <<>> /\ a[Len(a)] = 0 THEN trim(SubSeq(a, 1, Len(a) - 1)) ELSE a

bitLen(a) == IF a = <<>> THEN 0 ELSE (Len(a) - 1) * LimbBits + bitsOf(a[Len(a)])

isOdd(a) == a # <<>> /\ a[1] % 2 = 1

RECURSIVE mulSmall(_, _, _)
mulSmall(a, k, carry) ==
    IF a = <<>> THEN limbsOf(carry)
    ELSE LET v == a[1] * k + carry
         IN  <<v % Limb>> \o mulSmall(Tail(a), k, v \div Limb)

RECURSIVE addLimbs(_, _, _)
addLimbs(a, b, carry) ==
    IF a = <<>> /\ b = <<>> THEN limbsOf(carry)
    ELSE LET v == (IF a = <<>> THEN 0 ELSE a[1]) + (IF b = <<>> THEN 0 ELSE b[1]) + carry
         IN  <<v % Limb>> \o addLimbs(IF a = <<>> THEN a ELSE Tail(a),
                                      IF b = <<>> THEN b ELSE Tail(b), v \div Limb)

RECURSIVE mulLimbs(_, _)
mulLimbs(a, b) ==
    IF b = <<>> THEN <<>>
    ELSE addLimbs(mulSmall(a, b[1], 0), <<0>> \o mulLimbs(a, Tail(b)), 0)

\* quotient and remainder of a division by a small number
RECURSIVE divSmall(_, _)
divSmall(a, d) ==
    IF a = <<>> THEN [q |-> <<>>, r |-> 0]
    ELSE LET hi == divSmall(Tail(a), d)
             v == hi.r * Limb + a[1]
         IN  [q |-> <<v \div d>> \o hi.q, r |-> v % d]

shiftLeft(a, s) ==
    [i \in 1..(s \div LimbBits) |-> 0] \o mulSmall(a, Pow2(s % LimbBits), 0)

\* the number shifted right by s bits, and whether a bit was shifted out
shiftRight(a, s) ==
    LET n == s \div LimbBits
        low == SubSeq(a, 1, IF n < Len(a) THEN n ELSE Len(a))
        d == divSmall(SubSeq(a, n + 1, Len(a)), Pow2(s % LimbBits))
    IN  [q |-> trim(d.q), lost |-> d.r # 0 \/ \E i \in 1..Len(low) : low[i] # 0]

\* a double is m * 2^e with m of 53 bits, or zero
MantBits == 53

dblZero == [m |-> <<>>, e |-> 0]

\* the double nearest to n * 2^e, ties to even; inexact tells that n leaves out a
\* fraction below its last bit
roundDbl(n0, e, inexact) ==
    LET n == trim(n0)
        L == bitLen(n)
    IN  IF L = 0 THEN dblZero
        ELSE IF L <= MantBits
        THEN [m |-> trim(shiftLeft(n, MantBits - L)), e |-> e - (MantBits - L)]
        ELSE LET s == L - MantBits
                 a1 == shiftRight(n, s - 1)
                 q == trim(divSmall(a1.q, 2).q)
                 up == isOdd(a1.q) /\ (a1.lost \/ inexact \/ isOdd(q))
                 m1 == IF up THEN trim(addLimbs(q, <<1>>, 0)) ELSE q
             IN  IF bitLen(m1) > MantBits
                 THEN [m |-> trim(divSmall(m1, 2).q), e |-> e + s + 1]
                 ELSE [m |-> m1, e |-> e + s]

\* the conversion of an integer
dblOf(n) == roundDbl(limbsOf(n), 0, FALSE)

dblMul(x, y) == roundDbl(mulLimbs(x.m, y.m), x.e + y.e, FALSE)

\* x / d for a small whole d
dblDiv(x, d) ==
    LET a == divSmall(shiftLeft(x.m, 2 * LimbBits), d)
    IN  roundDbl(a.q, x.e - 2 * LimbBits, a.r # 0)

\* the conversion to an integer, which drops the fraction
dblTrunc(x) ==
    IF x.m = <<>> \/ -x.e >= MantBits THEN 0
    ELSE IF x.e >= 0 THEN intOf(shiftLeft(x.m, x.e))
    ELSE intOf(shiftRight(x.m, -x.e).q)

----------------------------------------------------------------------------
(* Percentages, as the source computes them *)

\* a rate in hundredths of a percent as the double an action receives: 0.35 for 35
rateDbl(rate) == dblDiv(dblOf(rate), 100)

\* double rewardTokensDouble = (reward/100) * (tokens.amount/10000): the amount is cut
\* to whole tokens by the integer division before it becomes a double
rewardTokensDouble(rate, whole) == dblMul(dblDiv(rateDbl(rate), 100), dblOf(whole))

\* the registrations of all casts, and the main pool's rate and shares
AllProfiles == {Profile1, Profile2, ProfileFree, ProfileOdd}

\* the rates that occur: the fee, the main pool's, and what a pool is registered with
\* or changed to
Percents == {modihostFees, m_mainpoolrew} \cup Rates \cup {pr.reward : pr \in AllProfiles}

\* the shares that occur, each with the rates it may meet
SharePercents ==
    ({100, 0} \X {m_mainpoolrew})
        \cup UNION {{pr.ownerShare, pr.holderShare} \X ({pr.reward} \cup Rates) :
                        pr \in AllProfiles}

\* the whole-token amounts that occur: up to the three tokens of the largest request,
\* and the hundreds of tokens up to the request of the worked example
Wholes == 0..3 \cup {100 * k : k \in 1..3}

\* uint64_t rewardTokensAmount = rewardTokensDouble * 10000, for each rate and amount
rewardTokensAmount ==
    [x \in Percents \X Wholes |->
        dblTrunc(dblMul(rewardTokensDouble(x[1], x[2]), dblOf(Unit)))]

\* amount = ((share/100) * rewardTokensDouble) * 10000, for each share, rate and amount
percTokensAmount ==
    [x \in SharePercents \X Wholes |->
        dblTrunc(dblMul(dblMul(dblDiv(dblOf(x[1][1]), 100),
                               rewardTokensDouble(x[1][2], x[2])),
                        dblOf(Unit)))]

\* a percentage taken of a tenth of the tokens
rewardOf_Tenth(rate, tokens) == rate * (tokens \div (Unit * 10))

\* (rate/100) * (tokens.amount/10000) * 10000, in doubles and then truncated
rewardOf(rate, tokens) == doubles.reward[<<rate, tokens \div Unit>>]

\* (share/100) * ((rate/100) * (tokens.amount/10000)) * 10000, in doubles and then
\* truncated
shareOf(share, rate, tokens) == doubles.perc[<<<<share, rate>>, tokens \div Unit>>]

----------------------------------------------------------------------------
(* Holder sub-allocation *)

\* a scan that takes all a holder has left, whatever is still needed
updhldrRow_TakeAll(a, hid, p_TID, p_tokensRemaining, p_hotel, p_pool, p_reward, p_holderPerc, lockedUntil) ==
    LET h == a.s.holders[hid] IN
    IF h.poolName # p_pool \/ ~h.isActive \/ h.remainingTokens <= 0 THEN a
    ELSE LET hldrTokensUsed == h.remainingTokens
             found == a.found + hldrTokensUsed
             s1 == [a.s EXCEPT
                      !.hldrReqs = emplace(@,
                          [ID |-> available_primary_key(a.s.hldrReqs), TID |-> p_TID,
                           hotel |-> p_hotel, pool |-> p_pool, holderID |-> hid,
                           holder |-> h.holder, tokens |-> hldrTokensUsed,
                           rewardTokens |-> shareOf(p_holderPerc, p_reward, hldrTokensUsed)]),
                      !.hldrLocks = emplace(@,
                          [ID |-> available_primary_key(a.s.hldrLocks), poolName |-> p_pool,
                           holderID |-> hid, holder |-> h.holder,
                           tokens |-> hldrTokensUsed, lockedUntil |-> lockedUntil])]
         IN  [s |-> s1, found |-> found,
              v |-> Append(a.v, [hid |-> hid, hldrTokensUsed |-> hldrTokensUsed]),
              stop |-> found >= p_tokensRemaining]

\* one holder row of the scan; a is [s, found, v, stop]
updhldrRow(a, hid, p_TID, p_tokensRemaining, p_hotel, p_pool, p_reward, p_holderPerc, lockedUntil) ==
    LET h == a.s.holders[hid] IN
    IF h.poolName # p_pool \/ ~h.isActive \/ h.remainingTokens <= 0 THEN a
    ELSE LET hldrTokensUsed ==
                 IF p_tokensRemaining - a.found <= h.remainingTokens
                 THEN p_tokensRemaining - a.found
                 ELSE h.remainingTokens
             found == a.found + hldrTokensUsed
             s1 == [a.s EXCEPT
                      !.hldrReqs = emplace(@,
                          [ID |-> available_primary_key(a.s.hldrReqs), TID |-> p_TID,
                           hotel |-> p_hotel, pool |-> p_pool, holderID |-> hid,
                           holder |-> h.holder, tokens |-> hldrTokensUsed,
                           rewardTokens |-> shareOf(p_holderPerc, p_reward, hldrTokensUsed)]),
                      !.hldrLocks = emplace(@,
                          [ID |-> available_primary_key(a.s.hldrLocks), poolName |-> p_pool,
                           holderID |-> hid, holder |-> h.holder,
                           tokens |-> hldrTokensUsed, lockedUntil |-> lockedUntil])]
         IN  [s |-> s1, found |-> found,
              v |-> Append(a.v, [hid |-> hid, hldrTokensUsed |-> hldrTokensUsed]),
              stop |-> found >= p_tokensRemaining]

RECURSIVE updhldrScan(_, _, _, _, _, _, _, _, _, _)
updhldrScan(a, order, k, p_TID, p_tokensRemaining, p_hotel, p_pool, p_reward, p_holderPerc, lockedUntil) ==
    IF k > Len(order) \/ a.stop THEN a
    ELSE updhldrScan(updhldrRow(a, order[k], p_TID, p_tokensRemaining, p_hotel, p_pool,
                                p_reward, p_holderPerc, lockedUntil),
                     order, k + 1, p_TID, p_tokensRemaining, p_hotel, p_pool, p_reward,
                     p_holderPerc, lockedUntil)

\* a batch that leaves a partially drawn holder's remaining as it was
RECURSIVE updhldrApply_SkipPartial(_, _, _, _)
updhldrApply_SkipPartial(s, v, k, t) ==
    IF k > Len(v) THEN s
    ELSE LET i == v[k]
             h == s.holders[i.hid]
         IN  updhldrApply_SkipPartial(
                 IF h.remainingTokens - i.hldrTokensUsed > 0
                 THEN s
                 ELSE [s EXCEPT !.holders[i.hid].remainingTokens = @ - i.hldrTokensUsed,
                                !.holders[i.hid].lastUsedAt = t],
                 v, k + 1, t)

\* the batch: every touched holder's remaining falls; lastUsedAt moves only when it
\* reaches zero
RECURSIVE updhldrApply(_, _, _, _)
updhldrApply(s, v, k, t) ==
    IF k > Len(v) THEN s
    ELSE LET i == v[k]
             h == s.holders[i.hid]
         IN  updhldrApply(
                 IF h.remainingTokens - i.hldrTokensUsed > 0
                 THEN [s EXCEPT !.holders[i.hid].remainingTokens = @ - i.hldrTokensUsed]
                 ELSE [s EXCEPT !.holders[i.hid].remainingTokens = @ - i.hldrTokensUsed,
                                !.holders[i.hid].lastUsedAt = t],
                 v, k + 1, t)

\* a walk of the holder table by primary key
holderOrder_ById(s) ==
    OrderBy(DOMAIN s.holders, [i \in DOMAIN s.holders |-> i])

\* the walk of the holder table through its lastusedat index
holderOrder(s) ==
    OrderBy(DOMAIN s.holders, [i \in DOMAIN s.holders |-> s.holders[i].lastUsedAt])

updhldrtkns(s, p_TID, p_tokensRemaining, p_hotel, p_pool, p_reward, p_holderPerc, lockedUntil, t) ==
    IF s.err # "" THEN s
    ELSE LET order == holderOrder(s)
             a == updhldrScan([s |-> s, found |-> 0, v |-> <<>>, stop |-> FALSE], order, 1,
                              p_TID, p_tokensRemaining, p_hotel, p_pool, p_reward,
                              p_holderPerc, lockedUntil)
         IN  updhldrApply(a.s, a.v, 1, t)

----------------------------------------------------------------------------
(* Escrow settlement *)

\* a fee leg that moves the tokens and leaves isFeePaid as it was
sndfee2escrw_NoFlag(s, auth, p_TID, from) ==
    LET s1 == check(s, p_TID \in DOMAIN s.feeReqs, "Record does not exist for TID.") IN
    IF s1.err # "" THEN s1
    ELSE LET r == s1.feeReqs[p_TID]
             feeAndReward == r.feesTokens + r.rewardTokens
             s2 == check(s1, HasRow(s1, from), "unable to find key")
             s3 == check(s2, get_balance(s1, from) >= feeAndReward, "Insufficient token balance.")
             s4 == transfer(s3, auth, from, m_escrow, feeAndReward)
             s6 == check(s4, get_balance(s4, m_escrow) >= r.totalTokens,
                         "Insufficient escrow token balance.")
         IN  IF s4.err # "" THEN s4
             ELSE transfer2Esc(s6, m_escrow, m_modihost, r.totalTokens)

sndfee2escrw(s, auth, p_TID, from) ==
    LET s1 == check(s, p_TID \in DOMAIN s.feeReqs, "Record does not exist for TID.") IN
    IF s1.err # "" THEN s1
    ELSE LET r == s1.feeReqs[p_TID]
             feeAndReward == r.feesTokens + r.rewardTokens
             s2 == check(s1, HasRow(s1, from), "unable to find key")
             s3 == check(s2, get_balance(s1, from) >= feeAndReward, "Insufficient token balance.")
             s4 == transfer(s3, auth, from, m_escrow, feeAndReward)
         IN  IF s4.err # "" THEN s4
             ELSE LET s5 == [s4 EXCEPT !.feeReqs[p_TID].isFeePaid = 1]
                      s6 == check(s5, get_balance(s5, m_escrow) >= r.totalTokens,
                                  "Insufficient escrow token balance.")
                  IN  transfer2Esc(s6, m_escrow, m_modihost, r.totalTokens)

\* the pool draw records of the TID, in the order of the tid index
RECURSIVE payPools(_, _, _)
payPools(s, ids, p_TID) ==
    IF ids = {} \/ s.err # "" THEN s
    ELSE LET i == CHOOSE j \in ids : \A k \in ids : j <= k
             rq == s.poolReqs[i]
         IN  IF rq.TID # p_TID THEN payPools(s, ids \ {i}, p_TID)
             ELSE LET s1 == check(s, rq.poolID \in DOMAIN s.pools,
                                  "cannot pass end iterator to modify")
                      s2 == check(s1, get_balance(s, m_escrow) >= rq.rewardTokens + rq.totalTokens,
                                  "Insufficient escrow balance in reward distribution.")
                      s3 == IF s2.err # "" THEN s2
                            ELSE transfer2Esc(s2, m_escrow, s.pools[rq.poolID].rewardAcnt,
                                              rq.rewardTokens)
                      s4 == transfer2Esc(s3, m_escrow, rq.pool, rq.totalTokens)
                      s5 == IF s4.err # "" THEN s4
                            ELSE [s4 EXCEPT !.pools[rq.poolID].ownerAvlblReward =
                                                @ + rq.ownerRewardTokens]
                  IN  payPools(s5, ids \ {i}, p_TID)

\* a second leg that credits every holder twice the recorded reward
RECURSIVE creditHolders_Twice(_, _, _)
creditHolders_Twice(s, ids, p_TID) ==
    IF ids = {} \/ s.err # "" THEN s
    ELSE LET i == CHOOSE j \in ids : \A k \in ids : j <= k
             rq == s.hldrReqs[i]
         IN  creditHolders_Twice(
                 IF rq.TID # p_TID THEN s
                 ELSE [s EXCEPT !.holders[rq.holderID].availableReward =
                                    @ + 2 * rq.rewardTokens],
                 ids \ {i}, p_TID)

RECURSIVE creditHolders(_, _, _)
creditHolders(s, ids, p_TID) ==
    IF ids = {} \/ s.err # "" THEN s
    ELSE LET i == CHOOSE j \in ids : \A k \in ids : j <= k
             rq == s.hldrReqs[i]
         IN  creditHolders(
                 IF rq.TID # p_TID THEN s
                 ELSE [s EXCEPT !.holders[rq.holderID].availableReward = @ + rq.rewardTokens],
                 ids \ {i}, p_TID)

servprvd2htl(s, p_TID) ==
    LET s1 == check(s, p_TID \in DOMAIN s.feeReqs, "Record does not exist for TID.") IN
    IF s1.err # "" THEN s1
    ELSE LET r == s1.feeReqs[p_TID]
             s2 == check(s1, HasRow(s1, m_modihost), "unable to find key")
             s3 == check(s2, get_balance(s1, m_modihost) >= r.totalTokens,
                         "Insufficient token balance.")
             s4 == transfer2Esc(s3, m_modihost, m_escrow, r.totalTokens)
         IN  IF s4.err # "" THEN s4
             ELSE LET s5 == [s4 EXCEPT !.feeReqs[p_TID].isServiceProvided = 1]
                      s6 == check(s5, get_balance(s5, m_escrow) >= r.feesTokens,
                                  "Insufficient escrow token balance.")
                      s7 == transfer2Esc(s6, m_escrow, m_modihost, r.feesTokens)
                      s8 == payPools(s7, DOMAIN s7.poolReqs, p_TID)
                  IN  creditHolders(s8, DOMAIN s8.hldrReqs, p_TID)

----------------------------------------------------------------------------
(* Allocation engine *)

\* a scan that draws the pool with id 0 like any other pool
Skips_MainPoolToo(s, item, p_hotel) ==
    \/ ~HasRow(s, item.poolName)
    \/ ~item.isActive
    \/ get_balance(s, item.colaterlAcnt) < item.colaterlAmnt
    \/ item.avlblTokens <= 0
    \/ get_balance(s, item.poolName) <= 0
    \/ p_hotel \in item.arRestriction

\* a scan that does not look at the collateral account
Skips_NoCollateral(s, item, p_hotel) ==
    \/ ~HasRow(s, item.poolName)
    \/ item.ID = 0
    \/ ~item.isActive
    \/ item.avlblTokens <= 0
    \/ get_balance(s, item.poolName) <= 0
    \/ p_hotel \in item.arRestriction

\* the conditions under which the scan passes over a pool
Skips(s, item, p_hotel) ==
    \/ ~HasRow(s, item.poolName)
    \/ item.ID = 0
    \/ ~item.isActive
    \/ get_balance(s, item.colaterlAcnt) < item.colaterlAmnt
    \/ item.avlblTokens <= 0
    \/ get_balance(s, item.poolName) <= 0
    \/ p_hotel \in item.arRestriction

\* the draw from one pool of the scan; a is [s, tokensFound, tokensRemaining,
\* totalRewardTokens, stop]
reqDraw(a, item, p_TID, p_hotel, p_tokens, t) ==
    LET poolTokensUsed == IF a.tokensRemaining <= item.avlblTokens
                          THEN a.tokensRemaining ELSE item.avlblTokens
        tokensFound == a.tokensFound + poolTokensUsed
        s1 == check(a.s, get_balance(a.s, item.poolName) >= poolTokensUsed,
                    "Insufficient pool token balance.")
        s2 == transfer2Esc(s1, item.poolName, m_escrow, poolTokensUsed)
        rewardTokens == rewardOf(item.reward, poolTokensUsed)
        s3 == IF s2.err # "" THEN s2
              ELSE [s2 EXCEPT !.poolReqs = emplace(@,
                       [ID |-> available_primary_key(s2.poolReqs), TID |-> p_TID,
                        hotel |-> p_hotel, poolID |-> item.ID, pool |-> item.poolName,
                        totalTokens |-> poolTokensUsed, rewardPerc |-> item.reward,
                        rewardTokens |-> rewardTokens,
                        ownerRewardTokens |->
                            shareOf(item.ownerShare, item.reward, poolTokensUsed)])]
        lockedUntil == t + item.lockInSecs
        s4 == updhldrtkns(s3, p_TID, poolTokensUsed, p_hotel, item.poolName, item.reward,
                          item.holderShare, lockedUntil, t)
        s5 == IF s4.err # "" THEN s4
              ELSE [s4 EXCEPT !.pools[item.ID].avlblTokens = @ - poolTokensUsed,
                              !.poolLocks = emplace(@,
                                  [ID |-> available_primary_key(s4.poolLocks),
                                   poolID |-> item.ID, poolName |-> item.poolName,
                                   tokens |-> poolTokensUsed, lockedUntil |-> lockedUntil])]
        s6 == calldeferred(s5, item.lockInSecs, sender_id(t, item.ID, p_hotel, p_TID), t)
    IN  [s |-> s6, tokensFound |-> tokensFound,
         tokensRemaining |-> p_tokens - tokensFound,
         totalRewardTokens |-> a.totalRewardTokens + rewardTokens,
         stop |-> tokensFound >= p_tokens]

RECURSIVE reqScan(_, _, _, _, _, _, _)
reqScan(a, order, k, p_TID, p_hotel, p_tokens, t) ==
    IF k > Len(order) \/ a.stop \/ a.s.err # "" THEN a
    ELSE LET item == a.s.pools[order[k]] IN
         IF HasRow(a.s, item.poolName) /\ ~HasRow(a.s, item.colaterlAcnt)
         THEN [a EXCEPT !.s = check(a.s, FALSE, "unable to find key")]
         ELSE reqScan(IF Skips(a.s, item, p_hotel) THEN a
                      ELSE reqDraw(a, item, p_TID, p_hotel, p_tokens, t),
                      order, k + 1, p_TID, p_hotel, p_tokens, t)

\* the draw from the main pool, of the amount poolTokensUsed
reqMainDraw(a, p_TID, p_hotel, p_tokens, poolTokensUsed) ==
    LET tokensFound == a.tokensFound + poolTokensUsed
        s1 == transfer2Esc(a.s, m_mainpool, m_escrow, poolTokensUsed)
        s2 == check(s1, 0 \in DOMAIN a.s.pools, "cannot pass end iterator to modify")
    IN  IF s2.err # "" THEN [a EXCEPT !.s = s2]
        ELSE LET ownr == s2.pools[0]
                 rewardTokens == rewardOf(ownr.reward, poolTokensUsed)
             IN  [s |-> [s2 EXCEPT !.poolReqs = emplace(@,
                           [ID |-> available_primary_key(s2.poolReqs), TID |-> p_TID,
                            hotel |-> p_hotel, poolID |-> ownr.ID, pool |-> ownr.poolName,
                            totalTokens |-> poolTokensUsed, rewardPerc |-> ownr.reward,
                            rewardTokens |-> rewardTokens,
                            ownerRewardTokens |->
                                shareOf(ownr.ownerShare, ownr.reward, poolTokensUsed)])],
                  tokensFound |-> tokensFound,
                  tokensRemaining |-> p_tokens - tokensFound,
                  totalRewardTokens |-> a.totalRewardTokens + rewardTokens,
                  stop |-> TRUE]

\* a fallback that draws the whole request from the main pool
reqMainPool_Whole(a, p_TID, p_hotel, p_tokens) ==
    IF a.s.err # "" \/ a.tokensFound >= p_tokens THEN a
    ELSE reqMainDraw(a, p_TID, p_hotel, p_tokens, p_tokens)

\* the shortfall is drawn from the main pool, unconditionally
reqMainPool(a, p_TID, p_hotel, p_tokens) ==
    IF a.s.err # "" \/ a.tokensFound >= p_tokens THEN a
    ELSE reqMainDraw(a, p_TID, p_hotel, p_tokens, a.tokensRemaining)

\* a scan in the order of the pool ids
poolOrder_ById(s) == OrderBy(DOMAIN s.pools, [i \in DOMAIN s.pools |-> i])

\* the reward index: by ascending reward rate, equal rates by id
poolOrder(s) == OrderBy(DOMAIN s.pools, [i \in DOMAIN s.pools |-> s.pools[i].reward])

\* a request that does not look the TID up
checkTID_None(s, p_TID) == s

checkTID(s, p_TID) == check(s, p_TID \notin DOMAIN s.feeReqs, "TID already exists.")

\* reqservice up to the saved service request: the scan, the main pool's part and
\* the new record, before the two settlement legs
reqRecord(s, p_TID, p_hotel, p_tokens, t) ==
    LET s0 == checkTID(s, p_TID) IN
    IF s0.err # "" THEN s0
    ELSE LET feeTokens == rewardOf(modihostFees, p_tokens)
             order == poolOrder(s0)
             a1 == reqScan([s |-> s0, tokensFound |-> 0, tokensRemaining |-> p_tokens,
                            totalRewardTokens |-> 0, stop |-> FALSE],
                           order, 1, p_TID, p_hotel, p_tokens, t)
             a2 == reqMainPool(a1, p_TID, p_hotel, p_tokens)
         IN  IF a2.s.err # "" THEN a2.s
             ELSE [a2.s EXCEPT !.feeReqs =
                      (p_TID :> [TID |-> p_TID, hotel |-> p_hotel, isFeePaid |-> 0,
                                 isServiceProvided |-> 0,
                                 totalTokens |-> a2.tokensFound,
                                 feesTokens |-> feeTokens,
                                 rewardTokens |-> a2.totalRewardTokens]) @@ @]

reqservice(s, auth, p_TID, p_hotel, p_tokens, t) ==
    LET s3 == reqRecord(s, p_TID, p_hotel, p_tokens, t) IN
    IF s3.err # "" THEN s3
    ELSE servprvd2htl(sndfee2escrw(s3, auth, p_TID, p_hotel), p_TID)

----------------------------------------------------------------------------
(* Termination *)

\* a rate change that does not look at the pool's isActive flag
chngepoolfee_Terminated(s, auth, poolName, reward) ==
    LET s1 == check(s, PoolByName(s, poolName) # {}, "Pool does not exist.") IN
    IF s1.err # "" THEN s1
    ELSE LET id == PoolId(s, poolName)
             s3 == require_auth(s1, auth, s.pools[id].ownerAcnt)
         IN  IF s3.err # "" THEN s3 ELSE [s3 EXCEPT !.pools[id].reward = reward]

chngepoolfee(s, auth, poolName, reward) ==
    LET s1 == check(s, PoolByName(s, poolName) # {}, "Pool does not exist.") IN
    IF s1.err # "" THEN s1
    ELSE LET id == PoolId(s, poolName)
             s2 == check(s1, s.pools[id].isActive, "Pool is terminated.")
             s3 == require_auth(s2, auth, s.pools[id].ownerAcnt)
         IN  IF s3.err # "" THEN s3 ELSE [s3 EXCEPT !.pools[id].reward = reward]

----------------------------------------------------------------------------
(* Reward withdrawal *)

wtdrwtknhldr(s, auth, holder, pool) ==
    LET s1 == require_auth(s, auth, holder)
        rows == HolderRows(s, pool, holder)
    IN  IF s1.err # "" \/ rows = {} THEN s1
        ELSE LET i == CHOOSE j \in rows : \A k \in rows : j <= k
                 item == s.holders[i]
                 s2 == check(s1, item.availableReward > 0, "Reward balance equal to zero.")
                 s3 == check(s2, PoolByName(s, item.poolName) # {},
                             "cannot dereference end iterator")
                 s4 == IF s3.err # "" THEN s3
                       ELSE transfer2Esc(s3, s.pools[PoolId(s, item.poolName)].rewardAcnt,
                                         holder, item.availableReward)
             IN  IF s4.err # "" THEN s4
                 ELSE [s4 EXCEPT !.holders[i].availableReward = 0]

\* a walk that pays the signer the owner reward of every pool, whoever owns it
RECURSIVE payOwnerPools_AllPools(_, _, _)
payOwnerPools_AllPools(s, ids, owner) ==
    IF ids = {} \/ s.err # "" THEN s
    ELSE LET i == CHOOSE j \in ids : \A k \in ids : j <= k
             pl == s.pools[i]
         IN  IF pl.ownerAvlblReward <= 0 \/ pl.rewardAcnt = owner
             THEN payOwnerPools_AllPools(s, ids \ {i}, owner)
             ELSE LET s1 == transfer2Esc(s, pl.rewardAcnt, owner, pl.ownerAvlblReward)
                  IN  payOwnerPools_AllPools(
                          IF s1.err # "" THEN s1
                          ELSE [s1 EXCEPT !.pools[i].ownerAvlblReward = 0],
                          ids \ {i}, owner)

\* the walk over the owner's pools: a pool without owner reward is passed over
RECURSIVE payOwnerPools(_, _, _)
payOwnerPools(s, ids, owner) ==
    IF ids = {} \/ s.err # "" THEN s
    ELSE LET i == CHOOSE j \in ids : \A k \in ids : j <= k
             pl == s.pools[i]
         IN  IF pl.ownerAcnt # owner \/ pl.ownerAvlblReward <= 0
             THEN payOwnerPools(s, ids \ {i}, owner)
             ELSE LET s1 == transfer2Esc(s, pl.rewardAcnt, pl.ownerAcnt, pl.ownerAvlblReward)
                  IN  payOwnerPools(
                          IF s1.err # "" THEN s1
                          ELSE [s1 EXCEPT !.pools[i].ownerAvlblReward = 0],
                          ids \ {i}, owner)

wtdrwtknownr(s, auth, owner) ==
    LET s1 == require_auth(s, auth, owner)
        s2 == check(s1, \E i \in DOMAIN s.pools : s.pools[i].ownerAcnt = owner,
                    "Pool does not exist.")
    IN  payOwnerPools(s2, DOMAIN s.pools, owner)

\* the walk over the holder rows of payrewards: a row with reward is paid and zeroed
RECURSIVE payHolders(_, _, _, _)
payHolders(s, ids, pool, rewardAcnt) ==
    IF ids = {} \/ s.err # "" THEN s
    ELSE LET i == CHOOSE j \in ids : \A k \in ids : j <= k
             item == s.holders[i]
         IN  IF item.poolName # pool \/ item.availableReward <= 0
             THEN payHolders(s, ids \ {i}, pool, rewardAcnt)
             ELSE LET s1 == transfer2Esc(s, rewardAcnt, item.holder, item.availableReward)
                  IN  payHolders(
                          IF s1.err # "" THEN s1
                          ELSE [s1 EXCEPT !.holders[i].availableReward = 0],
                          ids \ {i}, pool, rewardAcnt)

payrewards(s, auth, pool, owner) ==
    LET s1 == require_auth(s, auth, owner)
        s2 == check(s1, PoolByName(s, pool) # {}, "Pool does not exist.")
    IN  IF s2.err # "" THEN s2
        ELSE LET pl == s.pools[PoolId(s, pool)]
                 s3 == check(s2, pl.ownerAcnt = owner, "Invalid owner.")
                 s4 == transfer2Esc(s3, pl.rewardAcnt, pl.ownerAcnt, pl.ownerAvlblReward)
             IN  IF s4.err # "" THEN s4
                 ELSE payHolders([s4 EXCEPT !.pools[pl.ID].ownerAvlblReward = 0],
                                 DOMAIN s.holders, pool, pl.rewardAcnt)

ActiveHoldersOf(s, poolName) ==
    {i \in DOMAIN s.holders : s.holders[i].poolName = poolName /\ s.holders[i].isActive}

\* pay out and zero every active holder of the pool; the rows stay, and stay active
RECURSIVE trminateHolders(_, _, _, _)
trminateHolders(s, ids, poolName, rewardAcnt) ==
    IF ids = {} \/ s.err # "" THEN s
    ELSE LET i == CHOOSE j \in ids : \A k \in ids : j <= k
             h == s.holders[i]
             s1 == IF h.tokens > 0 THEN transfer2Esc(s, poolName, h.holder, h.tokens) ELSE s
             s2 == IF h.availableReward > 0
                   THEN transfer2Esc(s1, rewardAcnt, h.holder, h.availableReward) ELSE s1
             s3 == IF s2.err # "" THEN s2
                   ELSE [s2 EXCEPT !.holders[i].availableReward = 0,
                                   !.holders[i].tokens = 0,
                                   !.holders[i].remainingTokens = 0]
         IN  trminateHolders(s3, ids \ {i}, poolName, rewardAcnt)

trminatepool(s, auth, poolName) ==
    LET s1 == check(s, PoolByName(s, poolName) # {}, "Pool does not exist.") IN
    IF s1.err # "" THEN s1
    ELSE
    LET itr == s.pools[PoolId(s, poolName)]
        s2 == check(s1, itr.isActive, "Pool already terminated.")
        s3 == require_auth(s2, auth, itr.ownerAcnt)
    IN  IF s3.err # "" THEN s3
        ELSE IF ~HasRow(s, poolName)
        THEN [s3 EXCEPT !.pools[itr.ID].isActive = FALSE,
                        !.pools[itr.ID].ownerAvlblReward = 0,
                        !.pools[itr.ID].totalTokens = 0,
                        !.pools[itr.ID].avlblTokens = 0]
        ELSE
        LET act == ActiveHoldersOf(s, poolName)
            totHoldersBlnc == SumOver(act, [i \in act |-> s.holders[i].tokens])
            totHoldersRwrd == SumOver(act, [i \in act |-> s.holders[i].availableReward])
            s4 == check(s3, \A i \in act : s.holders[i].remainingTokens = s.holders[i].tokens,
                        "Pool tokens locked or in use.")
            s5 == IF totHoldersBlnc > 0
                  THEN check(s4, get_balance(s, poolName) >= totHoldersBlnc,
                             "Insufficient pool balance.")
                  ELSE s4
            s6 == IF totHoldersRwrd + itr.ownerAvlblReward > 0
                  THEN check(check(s5, HasRow(s, itr.rewardAcnt), "unable to find key"),
                             get_balance(s, itr.rewardAcnt) >= totHoldersRwrd + itr.ownerAvlblReward,
                             "Insufficient reward account balance.")
                  ELSE s5
            s7 == trminateHolders(s6, act, poolName, itr.rewardAcnt)
            s8 == IF itr.ownerAvlblReward > 0
                  THEN transfer2Esc(s7, itr.rewardAcnt, itr.ownerAcnt, itr.ownerAvlblReward)
                  ELSE s7
        IN  IF s8.err # "" THEN s8
            ELSE [s8 EXCEPT !.pools[itr.ID].isActive = FALSE,
                            !.pools[itr.ID].ownerAvlblReward = 0,
                            !.pools[itr.ID].totalTokens = get_balance(s8, poolName),
                            !.pools[itr.ID].avlblTokens = 0,
                            !.stakes = [c \in DOMAIN @ \ {itr.colaterlAcnt} |-> @[c]]]

----------------------------------------------------------------------------
(* Table maintenance *)

dlttblstake(s, auth) ==
    LET s1 == require_auth(s, auth, m_modihost) IN
    IF s1.err # "" THEN s1 ELSE [s1 EXCEPT !.stakes = <<>>]

----------------------------------------------------------------------------
(* Transactions *)

NoArgs == [tid |-> 0, acct |-> "", pool |-> "", amt |-> 0]

\* a transaction whose failed check leaves the handler's writes in place
Tx_Partial(op, args, r, ok) ==
    /\ (r.err = "") = ok
    /\ bal' = r.bal /\ pools' = r.pools /\ holders' = r.holders
    /\ stakes' = r.stakes /\ feeReqs' = r.feeReqs /\ poolReqs' = r.poolReqs
    /\ hldrReqs' = r.hldrReqs /\ poolLocks' = r.poolLocks
    /\ hldrLocks' = r.hldrLocks /\ deferred' = r.deferred
    /\ last' = [op |-> op, err |-> r.err, tid |-> args.tid, acct |-> args.acct,
                pool |-> args.pool, amt |-> args.amt]
    /\ UNCHANGED <<now, cast, sqrootCall, doubles>>

\* A transaction that succeeds commits its tables; one that fails a check is
\* rolled back by the host and leaves only its trace in last.
Tx(op, args, r, ok) ==
    /\ (r.err = "") = ok
    /\ IF ok
       THEN /\ bal' = r.bal /\ pools' = r.pools /\ holders' = r.holders
            /\ stakes' = r.stakes /\ feeReqs' = r.feeReqs /\ poolReqs' = r.poolReqs
            /\ hldrReqs' = r.hldrReqs /\ poolLocks' = r.poolLocks
            /\ hldrLocks' = r.hldrLocks /\ deferred' = r.deferred
       ELSE UNCHANGED tables
    /\ last' = [op |-> op, err |-> r.err, tid |-> args.tid, acct |-> args.acct,
                pool |-> args.pool, amt |-> args.amt]
    /\ UNCHANGED <<now, cast, sqrootCall, doubles>>

Initialize(ok) == Tx("initialize", NoArgs, initialize(Cur, {m_modihost}), ok)

\* the first, effective initialize
InitializeOnce == 0 \notin DOMAIN pools /\ Initialize(TRUE)

AddPool(ok) ==
    \E p \in PoolProfiles(cast) :
        Tx("addpool", [NoArgs EXCEPT !.pool = p.poolName, !.acct = p.colaterlAcnt,
                                     !.amt = p.pCollateral],
           addpool(Cur, p), ok)

AddPoolHolder(ok) ==
    \E l \in Lenders(cast) :
        Tx("addpoolholdr", [NoArgs EXCEPT !.pool = l[2], !.acct = l[1], !.amt = DepositIn(cast)[l[1]]],
           addpoolholdr(Cur, {l[1]}, l[2], l[1], DepositIn(cast)[l[1]], now), ok)

LendMoreTkns(ok) ==
    \E l \in Lenders(cast) :
        Tx("lendmoretkns", [NoArgs EXCEPT !.pool = l[2], !.acct = l[1], !.amt = DepositIn(cast)[l[1]]],
           lendmoretkns(Cur, {l[1]}, l[2], l[1], DepositIn(cast)[l[1]]), ok)

LeavePool(ok) ==
    \E l \in Lenders(cast) :
        Tx("leavepool", [NoArgs EXCEPT !.pool = l[2], !.acct = l[1]],
           leavepool(Cur, {l[1]}, l[2], l[1]), ok)

\* requests are numbered in the order they are made; a request may also reuse the
\* number of an earlier one, and may come without the requester's signature
ReqService(ok) ==
    \E tid \in TIDs, rq \in Requests(cast), signed \in BOOLEAN :
        /\ tid <= Cardinality(DOMAIN feeReqs) + 1
        /\ Tx("reqservice", [NoArgs EXCEPT !.tid = tid, !.acct = rq[1], !.amt = rq[2]],
              reqservice(Cur, IF signed THEN {rq[1]} ELSE {}, tid, rq[1], rq[2], now), ok)

\* the public action, which anybody may push (a sweep of empty lock tables does
\* nothing and is not taken)
UnlkPoolTkns ==
    /\ DOMAIN poolLocks \cup DOMAIN hldrLocks # {}
    /\ Tx("unlkpooltkns", NoArgs, unlkpooltkns(Cur, now), TRUE)

\* a request made while the clock can still reach the expiry of the locks it creates
ReqServiceInTime ==
    /\ \A p \in DOMAIN pools : now + pools[p].lockInSecs <= MaxTime
    /\ ReqService(TRUE)

\* a deferred transaction comes due and runs the sweep
DeferredFire ==
    \E d \in deferred :
        /\ d.at <= now
        /\ Tx("deferred", NoArgs,
              [unlkpooltkns(Cur, now) EXCEPT !.deferred = @ \ {d}], TRUE)

TrminatePool(ok) ==
    \E pn \in Terminable(cast) :
        \E i \in PoolByName(Cur, pn) :
            Tx("trminatepool", [NoArgs EXCEPT !.pool = pn],
               trminatepool(Cur, {pools[i].ownerAcnt}, pn), ok)

\* a plain transfer, signed by the sender
Transfer(ok) ==
    \E tr \in Transfers(cast) :
        Tx("transfer", [NoArgs EXCEPT !.acct = tr[1], !.amt = tr[3]],
           transfer(Cur, {tr[1]}, tr[1], tr[2], tr[3]), ok)

\* an account closes its balance row
Close(ok) ==
    \E a \in Closers(cast) :
        Tx("close", [NoArgs EXCEPT !.acct = a], close(Cur, {a}, a), ok)

\* chngepoolfee, signed by the pool's owner or by a holder, for a registered or an
\* unregistered pool name
ChngePoolFee(ok) ==
    \E pn \in {"p1", "p2"}, signer \in {"o1", "h1"}, reward \in Rates :
        Tx("chngepoolfee", [NoArgs EXCEPT !.pool = pn, !.acct = signer, !.amt = reward],
           chngepoolfee(Cur, {signer}, pn, reward), ok)

\* the pool owners of the cast
Owners == {"o1", m_mainpool}

WtdrwTknHldr(ok) ==
    \E l \in Lenders(cast) :
        Tx("wtdrwtknhldr", [NoArgs EXCEPT !.pool = l[2], !.acct = l[1]],
           wtdrwtknhldr(Cur, {l[1]}, l[1], l[2]), ok)

WtdrwTknOwnr(ok) ==
    \E o \in Owners :
        Tx("wtdrwtknownr", [NoArgs EXCEPT !.acct = o], wtdrwtknownr(Cur, {o}, o), ok)

PayRewards(ok) ==
    \E pn \in PoolAccts, o \in Owners :
        Tx("payrewards", [NoArgs EXCEPT !.pool = pn, !.acct = o],
           payrewards(Cur, {o}, pn, o), ok)

\* the first settlement leg pushed on its own, signed by the payer
SndFee2Escrw(ok) ==
    \E tid \in DOMAIN feeReqs, from \in Hotels :
        Tx("sndfee2escrw", [NoArgs EXCEPT !.tid = tid, !.acct = from],
           sndfee2escrw(Cur, {from}, tid, from), ok)

\* the second settlement leg pushed on its own, by anybody
ServPrvd2Htl(ok) ==
    \E tid \in DOMAIN feeReqs :
        Tx("servprvd2htl", [NoArgs EXCEPT !.tid = tid], servprvd2htl(Cur, tid), ok)

\* the operator clears the stake table
DltTblStake ==
    /\ DOMAIN stakes # {}
    /\ Tx("dlttblstake", NoArgs, dlttblstake(Cur, {m_modihost}), TRUE)

Tick ==
    /\ now + TickSecs <= MaxTime
    /\ now' = now + TickSecs
    /\ last' = [op |-> "tick", err |-> "", tid |-> 0, acct |-> "", pool |-> "", amt |-> 0]
    /\ UNCHANGED <<tables, cast, sqrootCall, doubles>>

\* the state after deployment, under the cast c
InitCast(c) ==
    /\ cast = c
    /\ now = 0
    /\ bal = InitBal(c)
    /\ pools = <<>> /\ holders = <<>> /\ stakes = <<>>
    /\ feeReqs = <<>> /\ poolReqs = <<>> /\ hldrReqs = <<>>
    /\ poolLocks = <<>> /\ hldrLocks = <<>>
    /\ deferred = {}
    /\ last = [op |-> "init", err |-> "", tid |-> 0, acct |-> "", pool |-> "", amt |-> 0]
    /\ sqrootCall = [number |-> 0, sqrt |-> 0, temp |-> 0, first |-> TRUE,
                     pc |-> "idle", ret |-> 0]
    /\ doubles = [reward |-> rewardTokensAmount, perc |-> percTokensAmount]

Init == \E c \in {"one", "two"} : InitCast(c)

Next ==
    \/ InitializeOnce \/ AddPool(TRUE)
    \/ AddPoolHolder(TRUE) \/ LendMoreTkns(TRUE) \/ LeavePool(TRUE)
    \/ ReqService(TRUE) \/ UnlkPoolTkns \/ DeferredFire \/ TrminatePool(TRUE)
    \/ Tick

Spec == Init /\ [][Next]_vars

\* The contract with the transactions it rejects: a rejected transaction changes
\* no table, and last records its message.
InitErr == InitCast("err")

NextErr ==
    \/ Next
    \/ AddPool(FALSE)
    \/ AddPoolHolder(FALSE) \/ LendMoreTkns(FALSE) \/ LeavePool(FALSE)
    \/ ReqService(FALSE) \/ TrminatePool(FALSE)

SpecErr == InitErr /\ [][NextErr]_vars

\* The contract with the settlement legs as the public actions they are, and an
\* escrow account that a plain transfer may fund.
InitLegs == InitCast("legs")

NextLegs ==
    \/ InitializeOnce \/ AddPool(TRUE) \/ AddPoolHolder(TRUE)
    \/ ReqService(TRUE) \/ Transfer(TRUE)
    \/ SndFee2Escrw(TRUE) \/ ServPrvd2Htl(TRUE)
    \/ UnlkPoolTkns \/ DeferredFire \/ Tick

SpecLegs == InitLegs /\ [][NextLegs]_vars

\* The contract with the operator's table maintenance and plain transfers, by
\* which a collateral account can fall below the registered collateral.
InitAdm == InitCast("adm")

NextAdm ==
    \/ InitializeOnce \/ AddPool(TRUE) \/ AddPoolHolder(TRUE)
    \/ ReqService(TRUE) \/ Transfer(TRUE) \/ DltTblStake
    \/ TrminatePool(TRUE)
    \/ UnlkPoolTkns \/ DeferredFire \/ Tick

SpecAdm == InitAdm /\ [][NextAdm]_vars

\* The contract under the scheduling the chain provides: time passes, and a
\* deferred transaction that is due is eventually run.
InitLive == InitCast("live")

NextLive ==
    \/ InitializeOnce \/ AddPool(TRUE) \/ AddPoolHolder(TRUE)
    \/ ReqServiceInTime
    \/ UnlkPoolTkns \/ DeferredFire \/ Tick

SpecLive == InitLive /\ [][NextLive]_vars /\ WF_vars(Tick) /\ WF_vars(DeferredFire)

\* The contract with registrations that repeat a pool name or a collateral account or
\* declare an unfit collateral, accepted or rejected, and the operator's stake purge.
InitDup == InitCast("dup")

NextDup ==
    \/ InitializeOnce \/ AddPool(TRUE) \/ AddPool(FALSE)
    \/ AddPoolHolder(TRUE) \/ ReqService(TRUE)
    \/ TrminatePool(TRUE) \/ DltTblStake
    \/ UnlkPoolTkns \/ DeferredFire \/ Tick

SpecDup == InitDup /\ [][NextDup]_vars

\* The contract with the owner's change of a pool's reward rate, accepted or rejected.
InitFee == InitCast("fee")

NextFee ==
    \/ InitializeOnce \/ AddPool(TRUE) \/ AddPoolHolder(TRUE)
    \/ ChngePoolFee(TRUE) \/ ChngePoolFee(FALSE)
    \/ ReqService(TRUE) \/ TrminatePool(TRUE)
    \/ UnlkPoolTkns \/ DeferredFire \/ Tick

SpecFee == InitFee /\ [][NextFee]_vars

\* The contract with the withdrawal of accrued rewards by holders and owners, accepted
\* or rejected.
InitRwd == InitCast("rwd")

NextRwd ==
    \/ InitializeOnce \/ AddPool(TRUE) \/ AddPoolHolder(TRUE)
    \/ ReqService(TRUE)
    \/ WtdrwTknHldr(TRUE) \/ WtdrwTknOwnr(TRUE) \/ PayRewards(TRUE)
    \/ WtdrwTknHldr(FALSE) \/ WtdrwTknOwnr(FALSE) \/ PayRewards(FALSE)
    \/ Tick

SpecRwd == InitRwd /\ [][NextRwd]_vars

\* sqroot run one loop iteration at a time, on every amount up to MaxNumber: the
\* locals before the loop, one pass through the loop body, and the return. A division
\* by a zero estimate traps.
SqrootEnter(n) ==
    sqrootCall = [number |-> n, sqrt |-> n \div 2, temp |-> 0, first |-> TRUE,
                  pc |-> "loop", ret |-> 0]

SqrootIter ==
    /\ sqrootCall.pc = "loop"
    /\ sqrootCall.sqrt # sqrootCall.temp
    /\ sqrootCall' =
          IF sqrootCall.sqrt = 0
          THEN [sqrootCall EXCEPT !.temp = sqrootCall.sqrt, !.pc = "trap"]
          ELSE [sqrootCall EXCEPT !.temp = sqrootCall.sqrt,
                                  !.sqrt = sqrootNext(sqrootCall.number, sqrootCall.sqrt),
                                  !.first = FALSE]
    /\ UNCHANGED <<now, tables, cast, doubles, last>>

SqrootReturn ==
    /\ sqrootCall.pc = "loop"
    /\ sqrootCall.sqrt = sqrootCall.temp
    /\ sqrootCall' = [sqrootCall EXCEPT !.pc = "done", !.ret = sqrootCall.sqrt * 100]
    /\ UNCHANGED <<now, tables, cast, doubles, last>>

InitRoot ==
    /\ cast = "root"
    /\ now = 0
    /\ bal = InitBal("root")
    /\ pools = <<>> /\ holders = <<>> /\ stakes = <<>>
    /\ feeReqs = <<>> /\ poolReqs = <<>> /\ hldrReqs = <<>>
    /\ poolLocks = <<>> /\ hldrLocks = <<>>
    /\ deferred = {}
    /\ last = [op |-> "init", err |-> "", tid |-> 0, acct |-> "", pool |-> "", amt |-> 0]
    /\ doubles = [reward |-> rewardTokensAmount, perc |-> percTokensAmount]
    /\ \E n \in 0 .. MaxNumber : SqrootEnter(n)

NextRoot == SqrootIter \/ SqrootReturn

\* the processor keeps running the call: a loop pass or a return that can be taken is
\* taken
SpecRoot == InitRoot /\ [][NextRoot]_vars /\ WF_vars(SqrootIter) /\ WF_vars(SqrootReturn)

\* The contract with pools registered on collaterals of different sizes.
InitLock == InitCast("lock")

NextLock ==
    \/ InitializeOnce \/ AddPool(TRUE) \/ AddPoolHolder(TRUE)
    \/ ReqService(TRUE) \/ UnlkPoolTkns \/ DeferredFire \/ Tick

SpecLock == InitLock /\ [][NextLock]_vars

\* The contract on the amounts of the worked example: one pool on the minimum
\* collateral, one holder, one requester.
InitEx == InitCast("ex")

NextEx ==
    \/ InitializeOnce \/ AddPool(TRUE) \/ AddPoolHolder(TRUE) \/ LeavePool(TRUE)
    \/ ReqService(TRUE) \/ WtdrwTknHldr(TRUE) \/ WtdrwTknOwnr(TRUE)
    \/ UnlkPoolTkns \/ DeferredFire \/ Tick

SpecEx == InitEx /\ [][NextEx]_vars

\* The contract with initialize repeated at any time, registrations before it and
\* under the main pool's name, and the termination of the main pool.
InitInit == InitCast("init")

NextInit ==
    \/ Initialize(TRUE) \/ AddPool(TRUE) \/ AddPool(FALSE)
    \/ AddPoolHolder(TRUE) \/ ReqService(TRUE) \/ TrminatePool(TRUE)
    \/ UnlkPoolTkns \/ DeferredFire \/ Tick

SpecInit == InitInit /\ [][NextInit]_vars

\* The contract with a pool whose reward rate is 0 and with requests of no tokens and
\* of parts of a token, served or rejected.
InitZero == InitCast("zero")

NextZero ==
    \/ InitializeOnce \/ AddPool(TRUE) \/ AddPoolHolder(TRUE)
    \/ ReqService(TRUE) \/ ReqService(FALSE)
    \/ UnlkPoolTkns \/ DeferredFire \/ Tick

SpecZero == InitZero /\ [][NextZero]_vars

\* The contract with a pool whose rate and shares are not halves: 0.35 % shared 20 to 80.
InitOdd == InitCast("odd")

NextOdd ==
    \/ InitializeOnce \/ AddPool(TRUE)
    \/ AddPoolHolder(TRUE) \/ LendMoreTkns(TRUE) \/ LeavePool(TRUE)
    \/ ReqService(TRUE) \/ UnlkPoolTkns \/ DeferredFire \/ TrminatePool(TRUE)
    \/ Tick

SpecOdd == InitOdd /\ [][NextOdd]_vars

\* The contract with the ledger actions of the pool account: it may transfer its
\* tokens away and close its balance row.
InitCls == InitCast("cls")

NextCls ==
    \/ InitializeOnce \/ AddPool(TRUE) \/ AddPoolHolder(TRUE)
    \/ ReqService(TRUE) \/ Transfer(TRUE) \/ Close(TRUE)
    \/ TrminatePool(TRUE)
    \/ UnlkPoolTkns \/ DeferredFire \/ Tick

SpecCls == InitCls /\ [][NextCls]_vars

----------------------------------------------------------------------------
(* Properties *)

PoolLockIds(poolID) == {i \in DOMAIN poolLocks : poolLocks[i].poolID = poolID}

HldrLockIds(hid) == {i \in DOMAIN hldrLocks : hldrLocks[i].holderID = hid}

PoolLockSum(ids) == SumOver(ids, [i \in ids |-> poolLocks[i].tokens])

HldrLockSum(ids) == SumOver(ids, [i \in ids |-> hldrLocks[i].tokens])

\* the draw records of a TID
PoolReqIds(tid) == {i \in DOMAIN poolReqs : poolReqs[i].TID = tid}

HldrReqIds(tid, pool) ==
    {i \in DOMAIN hldrReqs : hldrReqs[i].TID = tid /\ hldrReqs[i].pool = pool}

\* the last transaction was a request that was served
Served == last.op = "reqservice" /\ last.err = ""

\* C1, as claimed: for every pool, available plus the amounts of the pool's locks
\* whose expiry lies in the future equals total.
C1_Original ==
    \A p \in DOMAIN pools :
        pools[p].avlblTokens
          + PoolLockSum({i \in PoolLockIds(p) : poolLocks[i].lockedUntil > now})
        = pools[p].totalTokens

\* C1, amended: for every active pool, available plus the amounts of the pool's
\* locks still recorded (expired or not, until a sweep removes them) equals total.
C1_PoolLockSum ==
    \A p \in DOMAIN pools :
        pools[p].isActive =>
            pools[p].avlblTokens + PoolLockSum(PoolLockIds(p)) = pools[p].totalTokens

\* an active pool holds a lock whose expiry has passed and no sweep has run yet
C1_Witness ==
    \E i \in DOMAIN poolLocks :
        /\ poolLocks[i].lockedUntil <= now
        /\ pools[poolLocks[i].poolID].isActive
        /\ pools[poolLocks[i].poolID].avlblTokens < pools[poolLocks[i].poolID].totalTokens

\* C2, as claimed: for every holder position, remaining plus the amounts of the
\* position's locks whose expiry lies in the future equals its tokens.
C2_Original ==
    \A h \in DOMAIN holders :
        holders[h].remainingTokens
          + HldrLockSum({i \in HldrLockIds(h) : hldrLocks[i].lockedUntil > now})
        = holders[h].tokens

\* C2, amended: for every holder position, remaining plus the amounts of the
\* position's locks still recorded (expired or not) equals its tokens.
C2_HolderLockSum ==
    \A h \in DOMAIN holders :
        holders[h].remainingTokens + HldrLockSum(HldrLockIds(h)) = holders[h].tokens

\* a position is partially drawn and its lock has expired without a sweep
C2_Witness ==
    \E i \in DOMAIN hldrLocks :
        /\ hldrLocks[i].lockedUntil <= now
        /\ holders[hldrLocks[i].holderID].remainingTokens > 0
        /\ holders[hldrLocks[i].holderID].remainingTokens
             < holders[hldrLocks[i].holderID].tokens

\* C3: after a served request the amounts of the TID's pool draw records (scanned
\* pools and main pool) sum to the requested amount, and so does the total sourced.
C3_DrawsSumToRequest ==
    Served =>
        /\ SumOver(PoolReqIds(last.tid),
                   [i \in PoolReqIds(last.tid) |-> poolReqs[i].totalTokens]) = last.amt
        /\ feeReqs[last.tid].totalTokens = last.amt

\* a request served partly by a scanned pool and partly by the main pool
C3_Witness ==
    /\ Served
    /\ \E i, j \in PoolReqIds(last.tid) : poolReqs[i].poolID = 0 /\ poolReqs[j].poolID # 0

\* C4: the holder draw records of a TID and a pool other than the main pool sum to
\* that pool's draw record.
C4_HolderDrawsSumToPoolDraw ==
    \A i \in DOMAIN poolReqs :
        poolReqs[i].poolID # 0 =>
            LET ids == HldrReqIds(poolReqs[i].TID, poolReqs[i].pool) IN
            SumOver(ids, [j \in ids |-> hldrReqs[j].tokens]) = poolReqs[i].totalTokens

\* a pool draw split over two holders, the second of them drawn in part
C4_Witness ==
    \E i \in DOMAIN poolReqs :
        /\ poolReqs[i].poolID # 0
        /\ \E j, k \in HldrReqIds(poolReqs[i].TID, poolReqs[i].pool) :
              /\ j # k
              /\ hldrReqs[k].tokens < holders[hldrReqs[k].holderID].tokens

\* the balance of an account in a balance table b, zero without a row
BalOf(b, a) == IF a \in DOMAIN b THEN b[a] ELSE 0

TotalSupply(b) == SumOver(DOMAIN b, b)

\* the step is a request that was served
ServedStep == last'.op = "reqservice" /\ last'.err = ""

\* the draw records the step creates
NewPoolReqs == DOMAIN poolReqs' \ DOMAIN poolReqs

NewHldrReqs == DOMAIN hldrReqs' \ DOMAIN hldrReqs

\* the rewards the step's pool draw records pay to the account a
RewardsTo(a) ==
    LET ids == {j \in NewPoolReqs : pools[poolReqs'[j].poolID].rewardAcnt = a}
    IN  SumOver(ids, [j \in ids |-> poolReqs'[j].rewardTokens])

\* C5, as claimed: a served request leaves the sum of all balances, the escrow
\* balance and the balance of every pool that supplied principal (the main pool
\* included) as they were.
C5_Original ==
    [][ServedStep =>
          /\ TotalSupply(bal') = TotalSupply(bal)
          /\ BalOf(bal', m_escrow) = BalOf(bal, m_escrow)
          /\ \A i \in NewPoolReqs :
                BalOf(bal', poolReqs'[i].pool) = BalOf(bal, poolReqs'[i].pool)]_vars

\* C5, amended: a served request leaves the sum of all balances and the escrow
\* balance as they were, and the balance of every pool that supplied principal
\* grows by exactly the rewards of the draw records whose reward account is that
\* pool's account: nothing for a pool with a reward account of its own, the main
\* pool's reward for the main pool, which is its own reward account.
C5_TokensConserved ==
    [][ServedStep =>
          /\ TotalSupply(bal') = TotalSupply(bal)
          /\ BalOf(bal', m_escrow) = BalOf(bal, m_escrow)
          /\ \A i \in NewPoolReqs :
                BalOf(bal', poolReqs'[i].pool)
                  = BalOf(bal, poolReqs'[i].pool) + RewardsTo(poolReqs'[i].pool)]_vars

\* a request was served from the main pool, with a reward, and from another pool
C5_Witness ==
    /\ Served
    /\ \E i, j \in PoolReqIds(last.tid) :
          /\ poolReqs[i].poolID = 0 /\ poolReqs[i].rewardTokens > 0
          /\ poolReqs[j].poolID # 0 /\ poolReqs[j].rewardTokens > 0
    /\ bal[m_mainpool] > InitBal(cast)[m_mainpool]

\* C6: a served request debits the requester fee + total reward, credits the
\* operator the fee, credits every drawn pool's reward account the record's reward
\* and its owner's accrued reward the record's owner share, and credits every drawn
\* holder's accrued reward the holder record's reward, moving no token to the holder.
C6_SettlementAmounts ==
    [][ServedStep =>
          LET r == feeReqs'[last'.tid] IN
          /\ BalOf(bal', last'.acct) = BalOf(bal, last'.acct) - (r.feesTokens + r.rewardTokens)
          /\ BalOf(bal', m_modihost) = BalOf(bal, m_modihost) + r.feesTokens
          /\ \A i \in NewPoolReqs :
                LET rq == poolReqs'[i]
                    ra == pools[rq.poolID].rewardAcnt
                IN  /\ BalOf(bal', ra) = BalOf(bal, ra) + rq.rewardTokens
                    /\ pools'[rq.poolID].ownerAvlblReward
                         = pools[rq.poolID].ownerAvlblReward + rq.ownerRewardTokens
          /\ \A i \in NewHldrReqs :
                LET hq == hldrReqs'[i] IN
                /\ holders'[hq.holderID].availableReward
                     = holders[hq.holderID].availableReward + hq.rewardTokens
                /\ BalOf(bal', hq.holder) = BalOf(bal, hq.holder)]_vars

\* a served request drew two holders, each with a reward
C6_Witness ==
    /\ Served
    /\ \E i, j \in HldrReqIds(last.tid, "p1") :
          /\ i # j
          /\ hldrReqs[i].rewardTokens > 0 /\ hldrReqs[j].rewardTokens > 0
          /\ holders[hldrReqs[i].holderID].availableReward >= hldrReqs[i].rewardTokens
    /\ feeReqs[last.tid].feesTokens > 0

\* r is the percentage rate (in hundredths of a percent) of the amount, to less
\* than one unit of the fourth decimal
IsRateOf(r, rate, amount) ==
    /\ rate * amount - Unit < r * Unit
    /\ r * Unit < rate * amount + Unit

\* r is the whole percentage share of the amount, to less than one unit
IsShareOf(r, share, amount) ==
    /\ share * amount - 100 < r * 100
    /\ r * 100 < share * amount + 100

\* r is the whole percentage share of the rate of the amount, to less than one unit
IsShareOfRate(r, share, rate, amount) ==
    /\ share * rate * amount - 100 * Unit < r * 100 * Unit
    /\ r * 100 * Unit < share * rate * amount + 100 * Unit

\* C7, as claimed: for every amount, whole numbers of tokens or not, the recorded
\* fee is the fee rate of the requested amount, every pool draw record's reward is
\* the pool's rate of the drawn amount and its owner share the owner's share of that
\* reward, and every holder draw record's reward is the holders' share of the rate
\* of the amount drawn from the holder.
C7_Original ==
    /\ \A t \in DOMAIN feeReqs :
          IsRateOf(feeReqs[t].feesTokens, modihostFees, feeReqs[t].totalTokens)
    /\ \A i \in DOMAIN poolReqs :
          /\ IsRateOf(poolReqs[i].rewardTokens, poolReqs[i].rewardPerc,
                      poolReqs[i].totalTokens)
          /\ IsShareOf(poolReqs[i].ownerRewardTokens, pools[poolReqs[i].poolID].ownerShare,
                       poolReqs[i].rewardTokens)
    /\ \A i \in DOMAIN hldrReqs :
          LET p == pools[PoolId(Cur, hldrReqs[i].pool)] IN
          IsShareOfRate(hldrReqs[i].rewardTokens, p.holderShare, p.reward,
                        hldrReqs[i].tokens)

\* C8: once a Service Request exists for a TID, every later reqservice with that
\* TID is rejected with 'TID already exists.' and changes no table: no pool,
\* holder, lock, draw record, balance or deferred transaction.
C8_TidOnce ==
    [][(last'.op = "reqservice" /\ last'.tid \in DOMAIN feeReqs) =>
          /\ last'.err = "TID already exists."
          /\ UNCHANGED tables]_vars

\* a used TID was requested again and rejected, with tokens available to draw
C8_Witness ==
    /\ last.op = "reqservice"
    /\ last.err = "TID already exists."
    /\ last.tid \in DOMAIN feeReqs
    /\ \E i \in DOMAIN pools : i # 0 /\ pools[i].isActive /\ pools[i].avlblTokens > 0

\* C9, as claimed: a settlement leg pushed for a TID whose flag is already set moves
\* no token and credits no pool owner's or holder's accrued reward.
C9_Original ==
    [][(\/ /\ last'.op = "sndfee2escrw"
           /\ feeReqs[last'.tid].isFeePaid = 1
        \/ /\ last'.op = "servprvd2htl"
           /\ feeReqs[last'.tid].isServiceProvided = 1) =>
          /\ bal' = bal
          /\ \A i \in DOMAIN pools : pools'[i].ownerAvlblReward = pools[i].ownerAvlblReward
          /\ \A i \in DOMAIN holders :
                holders'[i].availableReward = holders[i].availableReward]_vars

\* the reasons for which a pool p is not eligible for a request of the hotel, read
\* on the state the request starts from
C10_Ineligible(p, hotel) ==
    \/ p.ID = 0
    \/ ~p.isActive
    \/ BalOf(bal, p.colaterlAcnt) < p.colaterlAmnt
    \/ p.avlblTokens = 0
    \/ BalOf(bal, p.poolName) = 0
    \/ hotel \in p.arRestriction

NewPoolLocks == DOMAIN poolLocks' \ DOMAIN poolLocks

\* C10: the scan of a served request creates pool draw records and pool-level locks
\* only for eligible pools: none for the main pool (whose one record, if any, is the
\* fallback's and carries no lock), an inactive pool, a pool whose collateral account
\* holds less than the registered collateral, a pool with nothing available, a pool
\* with no balance, or a pool that restricts the requester.
C10_ScanDrawsEligibleOnly ==
    [][ServedStep =>
          /\ \A i \in NewPoolReqs :
                \/ ~C10_Ineligible(pools[poolReqs'[i].poolID], last'.acct)
                \/ /\ poolReqs'[i].poolID = 0
                   /\ \A j \in NewPoolReqs : poolReqs'[j].poolID = 0 => j = i
                   /\ \A j \in NewPoolReqs : j <= i
          /\ \A i \in NewPoolLocks :
                ~C10_Ineligible(pools[poolLocks'[i].poolID], last'.acct)]_vars

\* a request was served without a draw from an active pool that has tokens available,
\* a balance and no restriction on the requester, but too little collateral
C10_Witness ==
    /\ Served
    /\ \E i \in DOMAIN pools :
          /\ i # 0 /\ pools[i].isActive
          /\ pools[i].avlblTokens > 0
          /\ BalOf(bal, pools[i].poolName) > 0
          /\ last.acct \notin pools[i].arRestriction
          /\ BalOf(bal, pools[i].colaterlAcnt) < pools[i].colaterlAmnt
          /\ \A j \in PoolReqIds(last.tid) : poolReqs[j].poolID # i

\* the pools eligible for the step's request, on the state it starts from
EligiblePools == {p \in DOMAIN pools : ~C10_Ineligible(pools[p], last'.acct)}

\* the step's draw record for the pool p, if any
DrawOf(p) == {i \in NewPoolReqs : poolReqs'[i].poolID = p}

\* C11: a served request draws the eligible pools in ascending order of reward
\* rate: when it draws a positive amount from the eligible pool q, every eligible
\* pool p of a strictly lower rate was drawn all it had available, earlier than q,
\* and has nothing available afterwards; and the main pool is drawn only when every
\* eligible pool is drained and the scan has not sourced the whole amount.
C11_AscendingRewardOrder ==
    [][ServedStep =>
          /\ \A q \in EligiblePools : \A i \in DrawOf(q) :
                poolReqs'[i].totalTokens > 0 =>
                    \A p \in EligiblePools :
                        pools[p].reward < pools[q].reward =>
                            /\ pools'[p].avlblTokens = 0
                            /\ \E j \in DrawOf(p) :
                                  /\ j < i
                                  /\ poolReqs'[j].totalTokens = pools[p].avlblTokens
          /\ DrawOf(0) # {} =>
                /\ \A p \in EligiblePools : pools'[p].avlblTokens = 0
                /\ LET ids == NewPoolReqs \ DrawOf(0)
                   IN  SumOver(ids, [j \in ids |-> poolReqs'[j].totalTokens]) < last'.amt]_vars

\* a request was served from two pools, the cheaper of them registered later (with
\* the higher id) and drawn first
C11_Witness ==
    /\ Served
    /\ \E i, j \in PoolReqIds(last.tid) :
          /\ i < j
          /\ poolReqs[i].poolID > poolReqs[j].poolID
          /\ poolReqs[j].poolID # 0
          /\ poolReqs[i].rewardPerc < poolReqs[j].rewardPerc
          /\ poolReqs[j].totalTokens > 0

\* the pools eligible for a request of the hotel in the present state
EligibleFor(hotel) == {p \in DOMAIN pools : ~C10_Ineligible(pools[p], hotel)}

\* what the eligible pools have available together
EligibleAvailable(hotel) ==
    LET E == EligibleFor(hotel) IN SumOver(E, [p \in E |-> pools[p].avlblTokens])

\* fee and rewards of a request of the amount A that drains the eligible pools and
\* takes the rest from the main pool
FeeAndReward(hotel, A) ==
    LET E == EligibleFor(hotel) IN
    rewardOf(modihostFees, A)
      + SumOver(E, [p \in E |-> rewardOf(pools[p].reward, pools[p].avlblTokens)])
      + rewardOf(pools[0].reward, A - EligibleAvailable(hotel))

\* C12, as claimed: a request of the amount A, signed by a requester who can pay fee
\* and reward, is served whenever the eligible pools have S < A available and the
\* main pool's balance is at least A - S; it sources A in all, A - S of it from the
\* main pool.
C12_Original ==
    \A rq \in Requests(cast) :
        LET hotel == rq[1]
            A == rq[2]
            S == EligibleAvailable(hotel)
            tid == Cardinality(DOMAIN feeReqs) + 1
            r == reqservice(Cur, {hotel}, tid, hotel, A, now)
        IN  (/\ 0 \in DOMAIN pools
             /\ S < A
             /\ BalOf(bal, m_mainpool) >= A - S
             /\ BalOf(bal, hotel) >= FeeAndReward(hotel, A)) =>
                /\ r.err = ""
                /\ r.feeReqs[tid].totalTokens = A
                /\ \E i \in DOMAIN r.poolReqs :
                      /\ r.poolReqs[i].TID = tid
                      /\ r.poolReqs[i].poolID = 0
                      /\ r.poolReqs[i].totalTokens = A - S

\* the active positions of the pool that are drawn: remaining differs from tokens
DrawnHolders(poolName) ==
    {i \in DOMAIN holders :
        /\ holders[i].poolName = poolName /\ holders[i].isActive
        /\ holders[i].remainingTokens # holders[i].tokens}

\* C13, as claimed: a trminatepool of a pool that has an active position with
\* remaining # total fails and changes nothing, whether or not the pool account has
\* a balance row.
C13_Original ==
    [][(last'.op = "trminatepool" /\ DrawnHolders(last'.pool) # {}) =>
          /\ last'.err # ""
          /\ UNCHANGED tables]_vars

\* the step is a termination that succeeded
TerminatedStep == last'.op = "trminatepool" /\ last'.err = ""

\* the positions of the pool that are active before the step
ActivePositions(poolName) ==
    {i \in DOMAIN holders : holders[i].poolName = poolName /\ holders[i].isActive}

\* what the step's termination owes the account a: the tokens and accrued rewards
\* of its active positions, and the owner's accrued reward if it is the owner
OwedBy(poolName, a) ==
    LET ids == {i \in ActivePositions(poolName) : holders[i].holder = a}
        p == pools[PoolId(Cur, poolName)]
    IN  SumOver(ids, [i \in ids |-> holders[i].tokens + holders[i].availableReward])
          + (IF p.ownerAcnt = a THEN p.ownerAvlblReward ELSE 0)

\* C14, as claimed: a successful trminatepool of a pool whose account has a balance
\* pays every active position its tokens and accrued reward and the owner the
\* owner's accrued reward, keeps every such position, zeroed and deactivated, leaves
\* the pool inactive with available = 0, owner-accrued-reward = 0 and total = the
\* pool account's final balance, and removes the collateral stake.
C14_Original ==
    [][(TerminatedStep /\ last'.pool \in DOMAIN bal) =>
          LET pid == PoolId(Cur, last'.pool) IN
          /\ \A i \in ActivePositions(last'.pool) :
                /\ i \in DOMAIN holders'
                /\ holders'[i].tokens = 0 /\ holders'[i].remainingTokens = 0
                /\ holders'[i].availableReward = 0
                /\ ~holders'[i].isActive
                /\ BalOf(bal', holders[i].holder)
                     = BalOf(bal, holders[i].holder) + OwedBy(last'.pool, holders[i].holder)
          /\ BalOf(bal', pools[pid].ownerAcnt)
               = BalOf(bal, pools[pid].ownerAcnt) + OwedBy(last'.pool, pools[pid].ownerAcnt)
          /\ ~pools'[pid].isActive
          /\ pools'[pid].avlblTokens = 0 /\ pools'[pid].ownerAvlblReward = 0
          /\ pools'[pid].totalTokens = BalOf(bal', last'.pool)
          /\ pools[pid].colaterlAcnt \notin DOMAIN stakes']_vars

\* C15, as claimed: for every pool created by addpool, a stake of its collateral
\* account exists exactly while the pool is active.
C15_Original ==
    \A p \in DOMAIN pools :
        p # 0 => (pools[p].colaterlAcnt \in DOMAIN stakes <=> pools[p].isActive)

\* the step is a sweep, pushed or deferred
SweepStep == last'.op \in {"unlkpooltkns", "deferred"}

\* the locks the step removes
GonePoolLocks == DOMAIN poolLocks \ DOMAIN poolLocks'

GoneHldrLocks == DOMAIN hldrLocks \ DOMAIN hldrLocks'

\* C16: a lock is removed only by a sweep, and a sweep at the time now removes
\* exactly the pool-level and holder-level locks with lockedUntil <= now, adds the
\* amount of each removed lock once to its pool's available or its holder's
\* remaining, and leaves the other locks, and every other available and remaining,
\* as they were.
C16_SweepReleasesExpired ==
    [][/\ (GonePoolLocks # {} \/ GoneHldrLocks # {}) => SweepStep
       /\ \A i \in DOMAIN poolLocks \cap DOMAIN poolLocks' : poolLocks'[i] = poolLocks[i]
       /\ \A i \in DOMAIN hldrLocks \cap DOMAIN hldrLocks' : hldrLocks'[i] = hldrLocks[i]
       /\ SweepStep =>
             /\ GonePoolLocks = {i \in DOMAIN poolLocks : poolLocks[i].lockedUntil <= now}
             /\ GoneHldrLocks = {i \in DOMAIN hldrLocks : hldrLocks[i].lockedUntil <= now}
             /\ DOMAIN poolLocks' \subseteq DOMAIN poolLocks
             /\ DOMAIN hldrLocks' \subseteq DOMAIN hldrLocks
             /\ \A p \in DOMAIN pools :
                   LET ids == {i \in GonePoolLocks : poolLocks[i].poolID = p} IN
                   pools'[p].avlblTokens
                     = pools[p].avlblTokens + SumOver(ids, [i \in ids |-> poolLocks[i].tokens])
             /\ \A h \in DOMAIN holders :
                   LET ids == {i \in GoneHldrLocks : hldrLocks[i].holderID = h} IN
                   holders'[h].remainingTokens
                     = holders[h].remainingTokens
                         + SumOver(ids, [i \in ids |-> hldrLocks[i].tokens])]_vars

\* after a sweep: the lock of one draw is gone and its amount is available again,
\* and the lock of a later draw, not yet expired, is still in place
C16_Witness ==
    /\ last.op \in {"unlkpooltkns", "deferred"}
    /\ \E i \in DOMAIN poolLocks :
          /\ poolLocks[i].lockedUntil > now
          /\ \E j, k \in DOMAIN poolReqs :
                /\ j # k
                /\ poolReqs[j].poolID = poolLocks[i].poolID
                /\ poolReqs[k].poolID = poolLocks[i].poolID
                /\ poolReqs[j].totalTokens <= pools[poolLocks[i].poolID].avlblTokens
          /\ \A k \in DOMAIN poolLocks : poolLocks[k].poolID = poolLocks[i].poolID => k = i

\* the ids a lock can have
LockIds == 0 .. (2 * MaxTID)

\* C17: when the deferred calls that are due are eventually run, every pool-level
\* and holder-level lock is eventually released and the drawn amount is back in
\* pool.available and holder.remaining; and as long as a lock is recorded, a deferred
\* call due at the lock's expiry, not earlier, is in flight.
C17_LocksEventuallyReleased ==
    /\ [](\A i \in DOMAIN poolLocks :
            \E d \in deferred : d.at = poolLocks[i].lockedUntil)
    /\ [](\A i \in DOMAIN hldrLocks :
            \E d \in deferred : d.at = hldrLocks[i].lockedUntil)
    /\ \A i \in LockIds :
          /\ (i \in DOMAIN poolLocks) ~> (i \notin DOMAIN poolLocks)
          /\ (i \in DOMAIN hldrLocks) ~> (i \notin DOMAIN hldrLocks)
    /\ (DOMAIN poolLocks # {}) ~>
          (\A p \in DOMAIN pools : pools[p].avlblTokens = pools[p].totalTokens)
    /\ (DOMAIN hldrLocks # {}) ~>
          (\A h \in DOMAIN holders : holders[h].remainingTokens = holders[h].tokens)

\* a deferred call has run and released the locks of a draw
C17_Witness ==
    /\ last.op = "deferred"
    /\ DOMAIN poolLocks = {} /\ DOMAIN hldrLocks = {}
    /\ \E i \in DOMAIN hldrReqs :
          /\ hldrReqs[i].tokens > 0
          /\ holders[hldrReqs[i].holderID].remainingTokens
               = holders[hldrReqs[i].holderID].tokens

\* C18, as claimed: the id under which a request schedules the deferred unlock of a
\* draw is never the id of a deferred call still in flight, whatever request is made
\* next (any requester, amount and unused TID, at the present time).
C18_Original ==
    \A rq \in Requests(cast), tid \in TIDs \ DOMAIN feeReqs :
        reqservice(Cur, {rq[1]}, tid, rq[1], rq[2], now).err
            # "deferred transaction with the same sender_id already exists"

\* the tokens the step's new holder draw records take from holder position i
HldrDrawn(i) ==
    LET rs == {r \in NewHldrReqs : hldrReqs'[r].holderID = i}
    IN  SumOver(rs, [r \in rs |-> hldrReqs'[r].tokens])

\* the tokens the step's new pool draw records take from the pool of that name
PoolDrawn(poolName) ==
    LET rs == {r \in NewPoolReqs : poolReqs'[r].pool = poolName}
    IN  SumOver(rs, [r \in rs |-> poolReqs'[r].totalTokens])

\* the positions of a pool the walk does not skip: active, with tokens remaining
Drawable(poolName) ==
    {i \in DOMAIN holders :
        /\ holders[i].poolName = poolName /\ holders[i].isActive
        /\ holders[i].remainingTokens > 0}

\* C19: a served request draws each pool's holder positions in ascending lastUsedAt
\* order: only active positions with tokens remaining are drawn, each at most once and
\* for at most its remaining; a position is drawn only when every drawable position of
\* the pool used longer ago is drawn whole; the draws cover the pool's draw (or exhaust
\* the positions); each position's remaining falls by its draw; lastUsedAt becomes now
\* exactly where a drawn position reached zero and is unchanged everywhere else.
C19_HoldersDrawnLeastRecentFirst ==
    [][ServedStep =>
          /\ DOMAIN holders' = DOMAIN holders
          /\ \A r \in NewHldrReqs :
                /\ hldrReqs'[r].holderID \in Drawable(hldrReqs'[r].pool)
                /\ hldrReqs'[r].tokens > 0
                /\ \A q \in NewHldrReqs :
                      hldrReqs'[q].holderID = hldrReqs'[r].holderID => q = r
          /\ \A i \in DOMAIN holders :
                /\ HldrDrawn(i) <= holders[i].remainingTokens
                /\ holders'[i].remainingTokens = holders[i].remainingTokens - HldrDrawn(i)
                /\ holders'[i].lastUsedAt =
                      IF HldrDrawn(i) > 0 /\ holders'[i].remainingTokens = 0
                      THEN now ELSE holders[i].lastUsedAt
                /\ \A j \in Drawable(holders[i].poolName) :
                      (HldrDrawn(i) > 0 /\ holders[j].lastUsedAt < holders[i].lastUsedAt)
                          => HldrDrawn(j) = holders[j].remainingTokens
          /\ \A p \in DOMAIN pools :
                LET ds == Drawable(pools[p].poolName)
                    got == SumOver(ds, [i \in ds |-> HldrDrawn(i)])
                IN  \/ got = PoolDrawn(pools[p].poolName)
                    \/ /\ got < PoolDrawn(pools[p].poolName)
                       /\ \A i \in ds : HldrDrawn(i) = holders[i].remainingTokens
       ]_vars

\* a served request has drawn a position that was not first by id: the position used
\* longest ago had the higher id, was drawn in part and kept its lastUsedAt, while the
\* lower-id position of the same pool, also drawable, was left untouched
C19_Witness ==
    /\ last.op = "reqservice" /\ last.err = ""
    /\ \E i, j \in DOMAIN holders, r \in DOMAIN hldrReqs :
          /\ i < j /\ holders[i].poolName = holders[j].poolName
          /\ holders[j].lastUsedAt < holders[i].lastUsedAt
          /\ hldrReqs[r].TID = last.tid /\ hldrReqs[r].holderID = j
          /\ holders[j].remainingTokens > 0
          /\ holders[i].isActive /\ holders[i].remainingTokens > 0
          /\ \A q \in DOMAIN hldrReqs : hldrReqs[q].TID = last.tid => hldrReqs[q].holderID # i

\* C20: under deposits, leaves, requests, sweeps and terminations, every pool's
\* available tokens lie between zero and its total, and every holder position's
\* remaining tokens lie between zero and its tokens.
C20_WithinTotals ==
    /\ \A p \in DOMAIN pools :
          0 <= pools[p].avlblTokens /\ pools[p].avlblTokens <= pools[p].totalTokens
    /\ \A i \in DOMAIN holders :
          0 <= holders[i].remainingTokens /\ holders[i].remainingTokens <= holders[i].tokens

\* a sweep has just returned drawn tokens to a pool that still has another draw
\* locked: the pool and one of its positions lie strictly between zero and their
\* totals, while another position of the pool is back at its full tokens
C20_Witness ==
    /\ last.op = "unlkpooltkns" /\ last.err = ""
    /\ \E p \in DOMAIN pools, i, j \in DOMAIN holders :
          /\ 0 < pools[p].avlblTokens /\ pools[p].avlblTokens < pools[p].totalTokens
          /\ holders[i].poolName = pools[p].poolName
          /\ holders[j].poolName = pools[p].poolName
          /\ 0 < holders[i].remainingTokens
          /\ holders[i].remainingTokens < holders[i].tokens
          /\ holders[j].isActive /\ holders[j].remainingTokens = holders[j].tokens
          /\ \E r \in DOMAIN hldrReqs : hldrReqs[r].holderID = j
          /\ \E l \in DOMAIN poolLocks : poolLocks[l].poolID = p

\* the positions of a holder in a pool, in the present state
PositionsOf(poolName, holder) ==
    {i \in DOMAIN holders : holders[i].poolName = poolName /\ holders[i].holder = holder}

\* C21: there is never more than one position row for a pool and a holder, and a
\* deposit by a holder who already has a position in the pool, active or retired, adds
\* the deposit to that position's tokens and remaining and makes it active, creating no
\* row; a deposit by a holder without a position creates exactly one.
C21_OnePositionPerPoolAndHolder ==
    /\ [](\A i, j \in DOMAIN holders :
             (holders[i].poolName = holders[j].poolName
                 /\ holders[i].holder = holders[j].holder) => i = j)
    /\ [][(last'.op = "addpoolholdr" /\ last'.err = "") =>
            LET rows == PositionsOf(last'.pool, last'.acct) IN
            IF rows # {}
            THEN /\ DOMAIN holders' = DOMAIN holders
                 /\ \A i \in rows :
                       /\ holders'[i].tokens = holders[i].tokens + last'.amt
                       /\ holders'[i].remainingTokens
                              = holders[i].remainingTokens + last'.amt
                       /\ holders'[i].isActive
                 /\ \A i \in DOMAIN holders \ rows : holders'[i] = holders[i]
            ELSE /\ Cardinality(DOMAIN holders' \ DOMAIN holders) = 1
                 /\ \A i \in DOMAIN holders : holders'[i] = holders[i]
                 /\ \A i \in DOMAIN holders' \ DOMAIN holders :
                       /\ holders'[i].poolName = last'.pool
                       /\ holders'[i].holder = last'.acct
                       /\ holders'[i].tokens = last'.amt
                       /\ holders'[i].remainingTokens = last'.amt
                       /\ holders'[i].isActive
         ]_vars

\* a holder who had left the pool has just deposited again: the balance shows the
\* tokens came back and went in again, and the holder's one position, created before
\* another holder's, is active with exactly the new deposit
C21_Witness ==
    /\ last.op = "addpoolholdr" /\ last.err = ""
    /\ \E i, j \in DOMAIN holders :
          /\ i < j
          /\ holders[i].poolName = last.pool /\ holders[i].holder = last.acct
          /\ holders[j].poolName = last.pool
          /\ holders[i].isActive /\ holders[i].tokens = last.amt
          /\ holders[i].lastUsedAt < now
          /\ bal[last.acct] = InitBal(cast)[last.acct] - last.amt

\* a step of addpool, accepted or rejected
AddPoolStep == last'.op = "addpool"

\* C22: no two active pools share a collateral account and no two pools share a name;
\* an addpool whose pool name already exists, or whose collateral account is the
\* collateral account of an active pool, is rejected and changes no table.
C22_CollateralAndNameUnique ==
    /\ [](\A i, j \in DOMAIN pools :
             /\ pools[i].poolName = pools[j].poolName => i = j
             /\ (pools[i].isActive /\ pools[j].isActive
                    /\ pools[i].colaterlAcnt = pools[j].colaterlAcnt) => i = j)
    /\ [][(AddPoolStep /\ \E i \in DOMAIN pools :
                             \/ pools[i].poolName = last'.pool
                             \/ pools[i].isActive /\ pools[i].colaterlAcnt = last'.acct)
            => (last'.err # "" /\ tables' = tables)
         ]_vars

\* an addpool under a new pool name, naming the collateral account of an active pool,
\* has just been rejected by the scan of the pools, the operator having purged the
\* stakes
C22_Witness ==
    /\ last.op = "addpool" /\ last.err = "Collateral account already in use."
    /\ DOMAIN stakes = {}
    /\ \E i \in DOMAIN pools :
          pools[i].isActive /\ pools[i].colaterlAcnt = last.acct
              /\ pools[i].poolName # last.pool
    /\ PoolByName(Cur, last.pool) = {}

\* the pool rows and stake rows a step adds
NewPools == DOMAIN pools' \ DOMAIN pools

NewStakes == DOMAIN stakes' \ DOMAIN stakes

\* C23: an addpool that succeeds found the main pool initialized, a declared collateral
\* of at least the fixed minimum and a collateral account holding at least the declared
\* collateral; it creates one active pool with total, available and owner reward zero
\* and lockInSecs = (K * 100000) / sqroot(collateral), and one stake of the declared
\* collateral for the collateral account; an addpool that fails creates no pool and no
\* stake.
C23_AddPoolPreconditionsAndEffect ==
    [][AddPoolStep =>
          IF last'.err = ""
          THEN /\ 0 \in DOMAIN pools
               /\ last'.amt >= colateralAmount
               /\ BalOf(bal, last'.acct) >= last'.amt
               /\ Cardinality(NewPools) = 1
               /\ \A i \in DOMAIN pools : pools'[i] = pools[i]
               /\ \A i \in NewPools :
                     /\ pools'[i].poolName = last'.pool
                     /\ pools'[i].colaterlAcnt = last'.acct
                     /\ pools'[i].isActive
                     /\ pools'[i].totalTokens = 0 /\ pools'[i].avlblTokens = 0
                     /\ pools'[i].ownerAvlblReward = 0
                     /\ pools'[i].colaterlAmnt = last'.amt
                     /\ pools'[i].lockInSecs * (sqroot(last'.amt) \div 100)
                            <= coeficient * 1000
                     /\ (pools'[i].lockInSecs + 1) * (sqroot(last'.amt) \div 100)
                            > coeficient * 1000
               /\ NewStakes = {last'.acct}
               /\ stakes'[last'.acct] = last'.amt
               /\ \A a \in DOMAIN stakes : stakes'[a] = stakes[a]
          ELSE pools' = pools /\ stakes' = stakes
    ]_vars

\* a pool has just been registered with the minimum collateral: it is active and
\* empty, locks draws for 1802 seconds, and its collateral is staked
C23_Witness ==
    /\ last.op = "addpool" /\ last.err = ""
    /\ \E i \in DOMAIN pools :
          /\ pools[i].poolName = last.pool /\ pools[i].isActive
          /\ pools[i].totalTokens = 0 /\ pools[i].avlblTokens = 0
          /\ pools[i].lockInSecs = 1802
          /\ last.acct \in DOMAIN stakes /\ stakes[last.acct] = colateralAmount

\* C24: a chngepoolfee that succeeds found the pool registered and active and was
\* signed by the pool's owner, and changes the pool's reward rate to the given rate and
\* nothing else: every other field of the pool, every other pool, and the positions,
\* stakes, balances, draw records, locks and deferred calls stay as they were; one that
\* fails changes nothing.
C24_RateChangeOnly ==
    [][last'.op = "chngepoolfee" =>
          IF last'.err = ""
          THEN \E i \in DOMAIN pools :
                  /\ pools[i].poolName = last'.pool
                  /\ pools[i].isActive
                  /\ pools[i].ownerAcnt = last'.acct
                  /\ pools' = [pools EXCEPT ![i].reward = last'.amt]
                  /\ UNCHANGED <<bal, holders, stakes, feeReqs, poolReqs, hldrReqs,
                                 poolLocks, hldrLocks, deferred>>
          ELSE tables' = tables
    ]_vars

\* the owner has just changed the rate of a pool that has tokens drawn and locked,
\* to a rate other than the earlier draw's
C24_Witness ==
    /\ last.op = "chngepoolfee" /\ last.err = ""
    /\ \E i \in DOMAIN pools, r \in DOMAIN poolReqs, l \in DOMAIN poolLocks :
          /\ pools[i].poolName = last.pool /\ pools[i].reward = last.amt
          /\ poolReqs[r].poolID = i /\ poolReqs[r].rewardPerc # last.amt
          /\ poolLocks[l].poolID = i
          /\ pools[i].avlblTokens < pools[i].totalTokens

\* a step of payrewards signed by the owner of the named pool, accepted or rejected
PayRewardsByOwner ==
    /\ last'.op = "payrewards"
    /\ \E i \in DOMAIN pools :
          pools[i].poolName = last'.pool /\ pools[i].ownerAcnt = last'.acct

\* C25, as claimed: payrewards signed by the pool's owner always goes through and
\* leaves the owner's accrued reward and every active holder's accrued reward of that
\* pool at zero, whatever the accrued amounts were.
C25_Original ==
    [][PayRewardsByOwner =>
          /\ last'.err = ""
          /\ \A i \in DOMAIN pools' :
                pools'[i].poolName = last'.pool => pools'[i].ownerAvlblReward = 0
          /\ \A h \in DOMAIN holders' :
                (holders'[h].poolName = last'.pool /\ holders'[h].isActive)
                    => holders'[h].availableReward = 0
    ]_vars

\* C26: a wtdrwtknhldr that succeeds on a holder's position moves exactly the
\* position's accrued reward from the pool's reward account to the holder and leaves it
\* at zero, every other position and every pool as they were; a wtdrwtknownr that
\* succeeds pays each pool of the owner its accrued owner reward, from the pool's reward
\* account to the owner, leaves those at zero, and leaves every other pool and every
\* position as they were.
C26_WithdrawalsPayExactly ==
    [][/\ (last'.op = "wtdrwtknhldr" /\ last'.err = "") =>
            LET rows == PositionsOf(last'.pool, last'.acct) IN
            /\ pools' = pools
            /\ DOMAIN holders' = DOMAIN holders
            /\ \A h \in DOMAIN holders \ rows : holders'[h] = holders[h]
            /\ \A h \in rows :
                  LET ra == pools[CHOOSE i \in DOMAIN pools :
                                     pools[i].poolName = last'.pool].rewardAcnt
                  IN  /\ holders[h].availableReward > 0
                      /\ holders' = [holders EXCEPT ![h].availableReward = 0]
                      /\ BalOf(bal', last'.acct)
                             = BalOf(bal, last'.acct) + holders[h].availableReward
                      /\ BalOf(bal', ra) = BalOf(bal, ra) - holders[h].availableReward
                      /\ \A a \in DOMAIN bal' \ {last'.acct, ra} :
                            BalOf(bal', a) = BalOf(bal, a)
            /\ rows = {} => bal' = bal
       /\ (last'.op = "wtdrwtknownr" /\ last'.err = "") =>
            LET own == {i \in DOMAIN pools : pools[i].ownerAcnt = last'.acct}
                paid == SumOver(own, [i \in own |-> pools[i].ownerAvlblReward])
            IN  /\ holders' = holders
                /\ DOMAIN pools' = DOMAIN pools
                /\ \A i \in DOMAIN pools \ own : pools'[i] = pools[i]
                /\ \A i \in own : pools'[i] = [pools[i] EXCEPT !.ownerAvlblReward = 0]
                /\ BalOf(bal', last'.acct) = BalOf(bal, last'.acct) + paid
                /\ \A i \in own :
                      BalOf(bal', pools[i].rewardAcnt)
                          = BalOf(bal, pools[i].rewardAcnt) - pools[i].ownerAvlblReward
                /\ TotalSupply(bal') = TotalSupply(bal)
    ]_vars

\* an owner of two pools has just withdrawn: both pools had accrued owner reward and
\* have none now, the owner holds what was paid, while the main pool and the holders
\* keep their accrued rewards
C26_Witness ==
    /\ last.op = "wtdrwtknownr" /\ last.err = ""
    /\ Cardinality({i \in DOMAIN pools : pools[i].ownerAcnt = last.acct}) = 2
    /\ \A i \in DOMAIN pools :
          pools[i].ownerAcnt = last.acct =>
              /\ pools[i].ownerAvlblReward = 0
              /\ \E r \in DOMAIN poolReqs : poolReqs[r].poolID = i
    /\ BalOf(bal, last.acct) > 0
    /\ \E h \in DOMAIN holders : holders[h].availableReward > 0
    /\ \E i \in DOMAIN pools :
          pools[i].ownerAcnt # last.acct /\ pools[i].ownerAvlblReward > 0

C28_Original ==
    (sqrootCall.pc = "loop" /\ sqrootCall.number > 0) ~> (sqrootCall.pc = "done")

\* floor(sqrt(n))
IntegerRoot(n) == CHOOSE k \in 0 .. n : k * k <= n /\ (k + 1) * (k + 1) > n

\* C29, as claimed: a call of sqroot never divides by zero, and what it returns for
\* the amount n is 100 * floor(sqrt(n)).
C29_Original ==
    /\ sqrootCall.pc # "trap"
    /\ sqrootCall.pc = "done" => sqrootCall.ret = 100 * IntegerRoot(sqrootCall.number)

\* C30, as claimed: for a positive amount, every estimate of the loop after the first
\* step is at most the estimate before it.
C30_Original ==
    [][(sqrootCall.pc = "loop" /\ sqrootCall'.pc = "loop" /\ sqrootCall.number > 0
           /\ ~sqrootCall.first)
          => sqrootCall'.sqrt <= sqrootCall.sqrt]_vars

\* C31: of two pools that addpool registered, the one with the larger collateral has
\* the shorter or the same lock duration.
C31_LargerCollateralShorterLock ==
    \A i, j \in DOMAIN pools \ {0} :
        pools[i].colaterlAmnt < pools[j].colaterlAmnt
            => pools[j].lockInSecs <= pools[i].lockInSecs

\* two pools are registered, one on the minimum collateral and one on twice as much,
\* and the second locks for a strictly shorter time
C31_Witness ==
    \E i, j \in DOMAIN pools \ {0} :
        /\ pools[i].colaterlAmnt = colateralAmount
        /\ pools[j].colaterlAmnt = 2 * colateralAmount
        /\ pools[j].lockInSecs < pools[i].lockInSecs
        /\ pools[j].lockInSecs > 0

\* the pool P and the position of H of the worked example
ExampleP == CHOOSE i \in DOMAIN pools : pools[i].poolName = "p1"

ExampleH == CHOOSE h \in DOMAIN holders :
                holders[h].poolName = "p1" /\ holders[h].holder = "h1"

\* P holds H's deposit of 500.0000, all of it available, and nothing is accrued
ExampleReady ==
    /\ PoolByName(Cur, "p1") # {} /\ PositionsOf("p1", "h1") # {}
    /\ pools[ExampleP].isActive
    /\ pools[ExampleP].totalTokens = ExampleDeposit
    /\ pools[ExampleP].avlblTokens = ExampleDeposit
    /\ holders[ExampleH].remainingTokens = ExampleDeposit

\* the lock on the tokens the request drew from P
ExampleLocks == {l \in DOMAIN poolLocks : poolLocks[l].poolID = ExampleP}

\* C32: in the worked example the request TID 1 of R for 300.0000 draws 300.0000 from
\* P and nothing from the main pool, 300.0000 from H, owes a fee of 1.5000 and accrues
\* 0.3000 to H and 0.3000 to P's owner, leaving 200.0000 available in P and remaining
\* with H; these stay at 200.0000 for as long as the draw is locked; the lock goes only
\* in a sweep at or after the request's time plus lockInSecs, and such a sweep brings
\* both back to 500.0000.
C32_WorkedExample ==
    /\ [][(ServedStep /\ ExampleReady) =>
            /\ last'.tid = 1 /\ last'.acct = "r1" /\ last'.amt = ExampleRequest
            /\ \E r \in NewPoolReqs :
                  /\ NewPoolReqs = {r}
                  /\ poolReqs'[r].poolID = ExampleP
                  /\ poolReqs'[r].totalTokens = 3000000
            /\ \E r \in NewHldrReqs :
                  /\ NewHldrReqs = {r}
                  /\ hldrReqs'[r].holderID = ExampleH
                  /\ hldrReqs'[r].tokens = 3000000
            /\ feeReqs'[1].feesTokens = 15000
            /\ holders'[ExampleH].availableReward = holders[ExampleH].availableReward + 3000
            /\ pools'[ExampleP].ownerAvlblReward = pools[ExampleP].ownerAvlblReward + 3000
            /\ pools'[ExampleP].avlblTokens = 2000000
            /\ holders'[ExampleH].remainingTokens = 2000000
            /\ pools'[0].avlblTokens = ExampleSeed /\ pools'[0].totalTokens = ExampleSeed
            /\ \E l \in DOMAIN poolLocks' :
                  /\ poolLocks'[l].poolID = ExampleP
                  /\ poolLocks'[l].lockedUntil = now + pools[ExampleP].lockInSecs
         ]_vars
    /\ [](ExampleLocks # {} =>
            /\ pools[ExampleP].avlblTokens = 2000000
            /\ holders[ExampleH].remainingTokens = 2000000)
    /\ [][\A l \in ExampleLocks :
            /\ l \notin DOMAIN poolLocks' =>
                  /\ last'.op \in {"unlkpooltkns", "deferred"}
                  /\ now >= poolLocks[l].lockedUntil
                  /\ pools'[ExampleP].avlblTokens = ExampleDeposit
                  /\ holders'[ExampleH].remainingTokens = ExampleDeposit
            /\ (last'.op \in {"unlkpooltkns", "deferred"}
                   /\ now >= poolLocks[l].lockedUntil) => l \notin DOMAIN poolLocks'
         ]_vars

\* the example has run to its end: the request was served from P alone, the clock
\* passed the lock's expiry, and a sweep has just brought P and H back to 500.0000,
\* with the rewards accrued
C32_Witness ==
    /\ last.op \in {"unlkpooltkns", "deferred"}
    /\ 1 \in DOMAIN feeReqs /\ feeReqs[1].totalTokens = ExampleRequest
    /\ feeReqs[1].feesTokens = 15000
    /\ \A r \in DOMAIN poolReqs : poolReqs[r].poolID # 0
    /\ DOMAIN poolLocks = {} /\ DOMAIN hldrLocks = {}
    /\ now >= pools[ExampleP].lockInSecs
    /\ pools[ExampleP].avlblTokens = ExampleDeposit
    /\ holders[ExampleH].remainingTokens = ExampleDeposit
    /\ holders[ExampleH].availableReward = 3000
    /\ pools[ExampleP].ownerAvlblReward = 3000

\* a leavepool that went through
LeftStep == last'.op = "leavepool" /\ last'.err = ""

\* what C33 says of a leavepool that went through on the position h of the holder
LeaveEffect(h) ==
    LET p == CHOOSE i \in DOMAIN pools : pools[i].poolName = last'.pool
        tokens == holders[h].tokens
        reward == holders[h].availableReward
        delta == [a \in DOMAIN bal' |->
                    (IF a = last'.acct THEN tokens + reward ELSE 0)
                    - (IF a = last'.pool THEN tokens ELSE 0)
                    - (IF a = pools[p].rewardAcnt THEN reward ELSE 0)]
    IN  /\ pools[p].isActive
        /\ holders[h].isActive
        /\ holders[h].remainingTokens = holders[h].tokens
        /\ \A a \in DOMAIN bal' : bal'[a] = BalOf(bal, a) + delta[a]
        /\ holders' = [holders EXCEPT ![h].isActive = FALSE, ![h].tokens = 0,
                                      ![h].remainingTokens = 0,
                                      ![h].availableReward = 0]
        /\ pools' = [pools EXCEPT ![p].totalTokens = @ - tokens,
                                  ![p].avlblTokens = @ - tokens]

\* C33, as claimed: every leavepool that goes through does so on an active position of
\* the holder in an active pool, with remaining equal to total, and has the claimed
\* effect on it.
C33_Original ==
    [][LeftStep =>
          \E h \in PositionsOf(last'.pool, last'.acct) : LeaveEffect(h)]_vars

\* the flags of a service request, as the pair <<isFeePaid, isServiceProvided>>
FlagsOf(s, tid) == <<s.feeReqs[tid].isFeePaid, s.feeReqs[tid].isServiceProvided>>

\* C34: no stored service request has isServiceProvided = 1 with isFeePaid = 0; the
\* request just served has both flags 1; and whatever request is made next, its record
\* is saved with both flags 0, the fee leg then sets isFeePaid alone, and the service
\* leg after it sets isServiceProvided.
C34_FeePaidBeforeServiceProvided ==
    /\ \A tid \in DOMAIN feeReqs :
          feeReqs[tid].isServiceProvided = 1 => feeReqs[tid].isFeePaid = 1
    /\ (last.op = "reqservice" /\ last.err = "") => FlagsOf(Cur, last.tid) = <<1, 1>>
    /\ \A rq \in Requests(cast), tid \in TIDs \ DOMAIN feeReqs :
          LET s3 == reqRecord(Cur, tid, rq[1], rq[2], now)
              s4 == sndfee2escrw(s3, {rq[1]}, tid, rq[1])
              s5 == servprvd2htl(s4, tid)
          IN  s3.err = "" =>
                /\ FlagsOf(s3, tid) = <<0, 0>>
                /\ s4.err = "" => FlagsOf(s4, tid) = <<1, 0>>
                /\ s5.err = "" => FlagsOf(s5, tid) = <<1, 1>>
                /\ s5 = reqservice(Cur, {rq[1]}, tid, rq[1], rq[2], now)

\* a request has just been served, its record carrying both flags, and a further
\* request can pass the record, the fee leg and the service leg in turn
C34_Witness ==
    /\ last.op = "reqservice" /\ last.err = ""
    /\ FlagsOf(Cur, last.tid) = <<1, 1>>
    /\ \E rq \in Requests(cast), tid \in TIDs \ DOMAIN feeReqs :
          LET s3 == reqRecord(Cur, tid, rq[1], rq[2], now)
              s4 == sndfee2escrw(s3, {rq[1]}, tid, rq[1])
          IN  /\ s3.err = "" /\ s4.err = ""
              /\ servprvd2htl(s4, tid).err = ""

\* C35: once initialize has run, the pool with id 0 is there and is the main pool, and
\* no other pool bears its name; an initialize that finds it changes nothing, one that
\* does not find it creates it and nothing else; an addpool before it exists is
\* rejected; and an addpool that goes through neither creates nor touches the pool
\* with id 0.
C35_MainPoolIsPoolZero ==
    /\ [](\A i \in DOMAIN pools : (pools[i].poolName = m_mainpool) <=> (i = 0))
    /\ [][0 \in DOMAIN pools => 0 \in DOMAIN pools']_vars
    /\ [][(last'.op = "initialize" /\ last'.err = "") =>
            IF 0 \in DOMAIN pools
            THEN tables' = tables
            ELSE /\ DOMAIN pools' = {0}
                 /\ pools'[0].poolName = m_mainpool
                 /\ pools'[0].isActive
                 /\ UNCHANGED <<bal, holders, stakes, feeReqs, poolReqs, hldrReqs,
                                poolLocks, hldrLocks, deferred>>]_vars
    /\ [][AddPoolStep =>
            /\ 0 \notin DOMAIN pools => (last'.err # "" /\ tables' = tables)
            /\ last'.err = "" => (0 \notin NewPools /\ pools'[0] = pools[0])]_vars

\* initialize has just run a second time, on a main pool that had been drawn from and
\* terminated since the first: the pool with id 0 is as the termination left it,
\* beside a pool that addpool registered
C35_Witness ==
    /\ last.op = "initialize" /\ last.err = ""
    /\ 0 \in DOMAIN pools /\ ~pools[0].isActive
    /\ pools[0].poolName = m_mainpool
    /\ \E r \in DOMAIN poolReqs : poolReqs[r].poolID = 0
    /\ \E i \in DOMAIN pools : i # 0 /\ pools[i].poolName = "p1"

\* the sums of the tokens and of the remaining tokens of a pool's holder positions
TokensIn(poolName) ==
    LET hs == {h \in DOMAIN holders : holders[h].poolName = poolName}
    IN  SumOver(hs, [h \in hs |-> holders[h].tokens])

RemainingIn(poolName) ==
    LET hs == {h \in DOMAIN holders : holders[h].poolName = poolName}
    IN  SumOver(hs, [h \in hs |-> holders[h].remainingTokens])

\* the tokens locked for a pool at pool level and at holder level, by expiry
PoolLockedUntil(p, at) ==
    LET ls == {l \in DOMAIN poolLocks :
                  poolLocks[l].poolID = p /\ poolLocks[l].lockedUntil = at}
    IN  SumOver(ls, [l \in ls |-> poolLocks[l].tokens])

HldrLockedUntil(poolName, at) ==
    LET ls == {l \in DOMAIN hldrLocks :
                  hldrLocks[l].poolName = poolName /\ hldrLocks[l].lockedUntil = at}
    IN  SumOver(ls, [l \in ls |-> hldrLocks[l].tokens])

\* C36: for every active pool other than the main pool, the pool's total is the sum of
\* its positions' tokens and its available the sum of their remaining; and for every
\* expiry the tokens locked at pool level are the tokens locked at holder level, so
\* that one sweep releases both.
C36_PoolMatchesHolders ==
    \A p \in DOMAIN pools \ {0} :
        pools[p].isActive =>
            /\ pools[p].totalTokens = TokensIn(pools[p].poolName)
            /\ pools[p].avlblTokens = RemainingIn(pools[p].poolName)
            /\ \A at \in {poolLocks[l].lockedUntil : l \in DOMAIN poolLocks} \cup
                         {hldrLocks[l].lockedUntil : l \in DOMAIN hldrLocks} :
                  PoolLockedUntil(p, at) = HldrLockedUntil(pools[p].poolName, at)

\* a sweep has just released one draw of a pool with two positions while a later draw,
\* which took tokens from both, is still locked: the pool's one lock carries what its
\* two holder locks carry together
C36_Witness ==
    /\ last.op \in {"unlkpooltkns", "deferred"}
    /\ \E p \in DOMAIN pools \ {0}, l \in DOMAIN poolLocks, g, h \in DOMAIN hldrLocks :
          /\ pools[p].isActive /\ poolLocks[l].poolID = p
          /\ g # h
          /\ hldrLocks[g].poolName = pools[p].poolName
          /\ hldrLocks[h].poolName = pools[p].poolName
          /\ hldrLocks[g].holderID # hldrLocks[h].holderID
          /\ hldrLocks[g].lockedUntil = poolLocks[l].lockedUntil
          /\ hldrLocks[h].lockedUntil = poolLocks[l].lockedUntil
          /\ poolLocks[l].tokens = hldrLocks[g].tokens + hldrLocks[h].tokens
          /\ Cardinality({r \in DOMAIN poolReqs : poolReqs[r].poolID = p}) = 2
          /\ pools[p].avlblTokens < pools[p].totalTokens
          /\ pools[p].avlblTokens > 0

\* the new draw records of a served request that name the main pool
MainDraws == {r \in NewPoolReqs : poolReqs'[r].poolID = 0}

\* C37: a served request that the other pools do not cover takes the shortfall from the
\* main pool in one draw record, and any other request takes nothing from it; the main
\* pool's draw gets no pool lock, no holder draw record, no holder lock and no deferred
\* call (the request schedules one call for each other pool it drew), and the main
\* pool's available and total stay as they were; so no served request lowers the main
\* pool's available.
C37_MainPoolDrawLeavesNoLock ==
    [][ServedStep =>
          /\ Cardinality(MainDraws) =
                IF SumOver(NewPoolReqs \ MainDraws,
                           [r \in NewPoolReqs \ MainDraws |-> poolReqs'[r].totalTokens])
                       < last'.amt
                THEN 1 ELSE 0
          /\ \A l \in NewPoolLocks : poolLocks'[l].poolID # 0
          /\ \A r \in NewHldrReqs : hldrReqs'[r].pool # m_mainpool
          /\ \A l \in DOMAIN hldrLocks' \ DOMAIN hldrLocks :
                hldrLocks'[l].poolName # m_mainpool
          /\ deferred \subseteq deferred'
          /\ Cardinality(deferred' \ deferred) = Cardinality(NewPoolReqs \ MainDraws)
          /\ pools'[0].avlblTokens = pools[0].avlblTokens
          /\ pools'[0].totalTokens = pools[0].totalTokens
    ]_vars

\* a request has just been served in part by a pool and for the rest by the main pool:
\* the only lock and the only deferred call are the pool's, and the main pool's
\* available and total are still the balance it was seeded with
C37_Witness ==
    /\ last.op = "reqservice" /\ last.err = ""
    /\ \E r, q \in DOMAIN poolReqs :
          /\ poolReqs[r].TID = last.tid /\ poolReqs[r].poolID = 0
          /\ poolReqs[r].totalTokens > 0
          /\ poolReqs[q].TID = last.tid /\ poolReqs[q].poolID # 0
    /\ \A l \in DOMAIN poolLocks : poolLocks[l].poolID # 0
    /\ Cardinality(deferred) = 1 /\ Cardinality(DOMAIN poolLocks) = 1
    /\ pools[0].avlblTokens = InitBal(cast)[m_mainpool]
    /\ pools[0].totalTokens = InitBal(cast)[m_mainpool]

\* the pools that have been terminated
TerminatedPools == {p \in DOMAIN pools : ~pools[p].isActive}

\* C38, as claimed: when trminatepool goes through, no pool lock and no holder lock
\* names the pool; and of a terminated pool no sweep changes the available, which is 0,
\* or a holder's remaining, and no served request draws from it.
C38_Original ==
    /\ [][TerminatedStep =>
            /\ \A l \in DOMAIN poolLocks' : poolLocks'[l].poolName # last'.pool
            /\ \A l \in DOMAIN hldrLocks' : hldrLocks'[l].poolName # last'.pool]_vars
    /\ [][\A p \in TerminatedPools :
            /\ SweepStep =>
                  /\ pools'[p].avlblTokens = 0 /\ pools[p].avlblTokens = 0
                  /\ \A h \in DOMAIN holders :
                        holders[h].poolName = pools[p].poolName =>
                            holders'[h].remainingTokens = holders[h].remainingTokens
            /\ ServedStep => \A r \in NewPoolReqs : poolReqs'[r].poolID # p]_vars

\* the request of the step, run on the tables before it up to its saved record
ReqRecordOfStep == reqRecord(Cur, last'.tid, last'.acct, last'.amt, now)

\* the pool draw records a run of reqservice has added to the tables it ends with
DrawsOf(s) == {s.poolReqs[r] : r \in DOMAIN s.poolReqs \ DOMAIN poolReqs}

\* the scan of the step's request goes through, and its fee plus its total reward is
\* zero or one of its draws has a reward of zero
ZeroRewardStep ==
    /\ last'.op = "reqservice"
    /\ ReqRecordOfStep.err = ""
    /\ \/ ReqRecordOfStep.feeReqs[last'.tid].feesTokens
              + ReqRecordOfStep.feeReqs[last'.tid].rewardTokens = 0
       \/ \E d \in DrawsOf(ReqRecordOfStep) : d.rewardTokens = 0

\* C39: a reqservice whose fee plus total reward is zero, or one of whose draws, the
\* main pool's included, has a reward of zero, fails and changes no table; and every
\* stored pool draw record has a reward and a drawn amount above zero.
C39_ZeroRewardRequestAborts ==
    /\ [](\A r \in DOMAIN poolReqs :
              poolReqs[r].rewardTokens > 0 /\ poolReqs[r].totalTokens > 0)
    /\ [][ZeroRewardStep => (last'.err # "" /\ UNCHANGED tables)]_vars

\* a request of one and a half tokens, signed by a requester who can pay fee and
\* reward, has just been rejected for a transfer of zero: a pool covered one token and
\* the main pool the remaining half, whose reward is zero
C39_Witness ==
    /\ last.op = "reqservice" /\ last.err = "must transfer positive quantity"
    /\ LET s3 == reqRecord(Cur, last.tid, last.acct, last.amt, now)
       IN  /\ s3.err = ""
           /\ s3.feeReqs[last.tid].feesTokens + s3.feeReqs[last.tid].rewardTokens > 0
           /\ BalOf(bal, last.acct) >= s3.feeReqs[last.tid].feesTokens
                                          + s3.feeReqs[last.tid].rewardTokens
           /\ \E d \in DrawsOf(s3) : d.poolID = 0 /\ d.totalTokens > 0 /\ d.rewardTokens = 0
           /\ \E d \in DrawsOf(s3) : d.poolID # 0 /\ d.rewardTokens > 0

\* the holder draw records of the pool draw record r: same TID, same pool
HolderDrawsOf(r) ==
    {h \in DOMAIN hldrReqs :
        hldrReqs[h].TID = poolReqs[r].TID /\ hldrReqs[h].pool = poolReqs[r].pool}

\* what the pool draw record r makes payable: the owner's share and the holders' rewards
PayableOf(r) ==
    poolReqs[r].ownerRewardTokens
        + SumOver(HolderDrawsOf(r), [h \in HolderDrawsOf(r) |-> hldrReqs[h].rewardTokens])

\* C40, as claimed: for every pool draw record of a pool whose owner share and holder
\* share add up to at most 100, the owner's share plus the rewards of the holder draw
\* records of the same TID and pool is at most the record's reward amount.
C40_Original ==
    \A r \in DOMAIN poolReqs :
        (pools[poolReqs[r].poolID].ownerShare + pools[poolReqs[r].poolID].holderShare <= 100)
            => PayableOf(r) <= poolReqs[r].rewardTokens

====
